---- MODULE Spec2Model ----
(***************************************************************************)
(* Flight-quality analytics engine of the drone-survey checker.            *)
(*                                                                         *)
(* Numbers.  A JavaScript number is modelled as a record                   *)
(*   [k |-> "fin", v |-> n]   a finite value, n in hundredths (SCALE)      *)
(*   [k |-> "nan", v |-> 0]   NaN                                          *)
(*   [k |-> "inf", v |-> s]   +Infinity (s = 1) or -Infinity (s = -1)      *)
(* wherever the code can produce a non-finite value (divisions).  Values   *)
(* that are always finite (distances, bearings) are plain integers in      *)
(* hundredths.                                                             *)
(*                                                                         *)
(* Positions.  lat/lng are given on a local metre grid (one unit of lat    *)
(* is one metre north, one unit of lng one metre east), the scale at which *)
(* the great-circle distance and the initial bearing of the source are the *)
(* Euclidean distance and the planar azimuth.                              *)
(***************************************************************************)
EXTENDS Integers, Sequences, FiniteSets, TLC

VARIABLES
  photos,                \* App state: the photo collection (array order)
  selectedDrone,         \* App state: the drone profile
  flightHeight,          \* App state: the design height in metres
  excludeTurns,          \* App state: the turn-exclusion switch
  metrics,               \* the memoised FlightMetrics
  isCheckingQuality,     \* App state
  qualityCheckProgress,  \* App state
  qc,                    \* the running runQualityCheck call: its position
  updatedPhotos,         \* the running runQualityCheck call: its local array
  uploader,              \* the running handleFileChange call
  parsed,                \* the last parseMrkContent call: its input and its result
  call,                  \* the last call of a function of the engine on its own
  timeZone,              \* the host: minutes its local time is ahead of UTC
  analysisStatus,        \* App state: AnalysisStatus
  aiReport,              \* App state: the text of the AI analysis, or null
  analysis               \* the running handleAnalysis call: what it passed to the service

\* The state of the report panel.
reportVars == <<analysisStatus, aiReport, analysis>>

vars == <<photos, selectedDrone, flightHeight, excludeTurns, metrics,
          isCheckingQuality, qualityCheckProgress, qc, updatedPhotos, uploader, parsed, call, timeZone,
          analysisStatus, aiReport, analysis>>

\* ------------------------------------------------------------------ numbers

\* Fixed-point resolution of the model: values are held in hundredths.
SCALE == 10 * 10

Fin(n) == [k |-> "fin", v |-> n]
NaN == [k |-> "nan", v |-> 0]
PosInf == [k |-> "inf", v |-> 1]
NegInf == [k |-> "inf", v |-> -1]

\* The values of a JavaScript number.
JsNumber == [k : {"fin", "nan", "inf"}, v : Int]

IsNaN(a) == a.k = "nan"
IsFin(a) == a.k = "fin"

Abs(n) == IF n < 0 THEN -n ELSE n
Sign(n) == IF n < 0 THEN -1 ELSE IF n > 0 THEN 1 ELSE 0

\* Integer quotient rounded toward zero (b # 0).
TruncDiv(a, b) == Sign(a) * Sign(b) * (Abs(a) \div Abs(b))

\* IEEE-754 division a / b.
jsDiv(a, b) ==
  IF IsNaN(a) \/ IsNaN(b) THEN NaN
  ELSE IF a.k = "inf" /\ b.k = "inf" THEN NaN
  ELSE IF a.k = "inf" THEN (IF a.v * (IF b.v < 0 THEN -1 ELSE 1) > 0 THEN PosInf ELSE NegInf)
  ELSE IF b.k = "inf" THEN Fin(0)
  ELSE IF b.v = 0 THEN (IF a.v = 0 THEN NaN ELSE IF a.v > 0 THEN PosInf ELSE NegInf)
  ELSE Fin(TruncDiv(a.v * SCALE, b.v))

\* IEEE-754 product a * b.
jsMul(a, b) ==
  IF IsNaN(a) \/ IsNaN(b) THEN NaN
  ELSE IF a.k = "inf" \/ b.k = "inf" THEN
         (IF a.v = 0 \/ b.v = 0 THEN NaN
          ELSE IF Sign(a.v) * Sign(b.v) > 0 THEN PosInf ELSE NegInf)
  ELSE Fin(TruncDiv(a.v * b.v, SCALE))

\* IEEE-754 difference a - b.
jsSub(a, b) ==
  IF IsNaN(a) \/ IsNaN(b) THEN NaN
  ELSE IF a.k = "inf" /\ b.k = "inf" THEN (IF a.v = b.v THEN NaN ELSE a)
  ELSE IF a.k = "inf" THEN a
  ELSE IF b.k = "inf" THEN (IF b.v > 0 THEN NegInf ELSE PosInf)
  ELSE Fin(a.v - b.v)

\* IEEE-754 sum a + b.
jsAdd(a, b) ==
  IF IsNaN(a) \/ IsNaN(b) THEN NaN
  ELSE IF a.k = "inf" /\ b.k = "inf" THEN (IF a.v = b.v THEN a ELSE NaN)
  ELSE IF a.k = "inf" THEN a
  ELSE IF b.k = "inf" THEN b
  ELSE Fin(a.v + b.v)

\* a < b; every comparison with NaN is false.
jsLt(a, b) ==
  IF IsNaN(a) \/ IsNaN(b) THEN FALSE
  ELSE IF a.k = "inf" THEN (a.v < 0 /\ ~(b.k = "inf" /\ b.v < 0))
  ELSE IF b.k = "inf" THEN b.v > 0
  ELSE a.v < b.v

jsGt(a, b) == jsLt(b, a)

\* Math.max / Math.min: NaN if either argument is NaN.
jsMax(a, b) == IF IsNaN(a) \/ IsNaN(b) THEN NaN ELSE IF jsLt(a, b) THEN b ELSE a
jsMin(a, b) == IF IsNaN(a) \/ IsNaN(b) THEN NaN ELSE IF jsLt(b, a) THEN b ELSE a

\* A finite value v with 0 <= v <= 100 (in hundredths).
InPercentRange(a) == IsFin(a) /\ 0 <= a.v /\ a.v <= 100 * SCALE

\* The largest d in 0..35 with (base + d * step)^2 <= n: one base-36 digit of the root.
SqrtDigit(n, base, step) ==
  Cardinality({d \in 1..35 : LET r == base + d * step IN r <= 46340 /\ r * r <= n})

\* Math.sqrt on a non-negative integer, rounded down.
SqrtFrom(n, base, step) == base + step * SqrtDigit(n, base, step)
Sqrt(n) == SqrtFrom(n, SqrtFrom(n, SqrtFrom(n, 0, 1296), 36), 1)

\* tan((k - 0.5) degrees) * 100000 for k = 1..45: the boundaries between whole degrees.
TanHalf == <<873, 2619, 4366, 6116, 7870, 9629, 11394, 13165, 14945, 16734,
             18534, 20345, 22169, 24008, 25862, 27732, 29621, 31530, 33460, 35412,
             37388, 39391, 41421, 43481, 45573, 47698, 49858, 52057, 54296, 56577,
             58905, 61280, 63707, 66189, 68728, 71329, 73996, 76733, 79544, 82434,
             85408, 88473, 91633, 94896, 98270>>

\* atan(n / d) in whole degrees (nearest), for 0 <= n <= d and d > 0.
AtanOctant(n, d) == Cardinality({k \in 1..45 : TanHalf[k] * d <= n * 100000})

\* Math.atan2(y, x) converted by toDeg, in whole degrees in (-180, 180].
\* atan(ay / ax) in whole degrees, for ay, ax >= 0, not both 0.
AtanQuadrant(ay, ax) == IF ay <= ax THEN AtanOctant(ay, ax) ELSE 90 - AtanOctant(ax, ay)

\* The angle of the quadrant of (x, y), from the first-quadrant angle a.
InQuadrant(y, x, a) ==
  IF x >= 0 THEN (IF y < 0 THEN -a ELSE a)
  ELSE (IF y < 0 THEN -(180 - a) ELSE 180 - a)

Atan2Deg(y, x) ==
  IF y = 0 /\ x = 0 THEN 0 ELSE InQuadrant(y, x, AtanQuadrant(Abs(y), Abs(x)))

\* ------------------------------------------------------------------ GeoMath

\* Distance in metres (hundredths) between two photos.
Hypot(dLat, dLon) == Sqrt((dLat * dLat + dLon * dLon) * SCALE * SCALE)
calculateDistance(p1, p2) == Hypot(p2.lat - p1.lat, p2.lng - p1.lng)

\* a % b of JavaScript: the remainder has the sign of a (b > 0).
jsRem(a, b) == Sign(a) * (Abs(a) % b)

\* The bearing without the full turn added: toDeg(Math.atan2(y, x)) % 360.
BearingWithoutTurn(p1, p2) ==
  jsRem(Atan2Deg(p2.lng - p1.lng, p2.lat - p1.lat), 360) * SCALE

\* Initial bearing p1 -> p2 in degrees (hundredths), 0 = north, 90 = east:
\* (toDeg(Math.atan2(y, x)) + 360) % 360.
calculateBearing(p1, p2) ==
  jsRem(Atan2Deg(p2.lng - p1.lng, p2.lat - p1.lat) + 360, 360) * SCALE

\* ------------------------------------------------------------------ sorting

\* Array.prototype.sort is stable: the element at position k of ps goes to the position
\* that counts the elements with a smaller key and the earlier elements with an equal
\* key.  key is a sequence of the elements' sort keys.
StableRank(key, k) ==
  1 + Cardinality({j \in 1..Len(key) : key[j] < key[k] \/ (key[j] = key[k] /\ j < k)})

Ranked(ps, rank) ==
  SubSeq([r \in 1..Len(ps) |-> ps[CHOOSE k \in 1..Len(ps) : rank[k] = r]], 1, Len(ps))

StableSort(ps, key) ==
  Ranked(ps, SubSeq([k \in 1..Len(ps) |-> StableRank(key, k)], 1, Len(ps)))

\* [...photos].sort((a, b) => a.timestamp - b.timestamp): a stable sort of a copy.
SortByTimestamp(ps) ==
  StableSort(ps, SubSeq([k \in 1..Len(ps) |-> ps[k].timestamp], 1, Len(ps)))

\* photos.sort(cmp): the array handed in is sorted in place and returned.
SortedInPlace(ps) == [photos |-> SortByTimestamp(ps), sorted |-> SortByTimestamp(ps)]

\* const sorted = [...photos].sort(cmp): the two arrays after the statement.  The
\* spread makes a new array of the same photo objects, and it is the new array that
\* is sorted.
SortedCopy(ps) == [photos |-> ps, sorted |-> SortByTimestamp(ps)]

\* ------------------------------------------------------------------ FlightCurvatureAnalyzer

\* A photo's name is the number in its file name (DJI_0007.JPG is 7); names of
\* equal width compare as their numbers do.  NULL is the absent name (null).
NULL == 0 - 1

\* |b1 - b2| folded to at most 180 degrees.
Fold(diff) == IF diff > 180 * SCALE THEN 360 * SCALE - diff ELSE diff
FoldedDiff(b1, b2) == Fold(Abs(b1 - b2))

\* The thresholds the other way round: the wider one with turn exclusion on.
turnThresholdSwapped(exclude) == IF exclude THEN 20 * SCALE ELSE 10 * SCALE

\* const turnThreshold = excludeTurns ? 10 : 20
turnThreshold(exclude) == IF exclude THEN 10 * SCALE ELSE 20 * SCALE

\* Both segments of the triple at i are longer than 5 m.
MovedSignificantly(sorted, i) ==
  /\ calculateDistance(sorted[i], sorted[i + 1]) > 5 * SCALE
  /\ calculateDistance(sorted[i + 1], sorted[i + 2]) > 5 * SCALE

\* The heading deviation at the middle photo of the triple at i.
TripleDeviation(sorted, i) ==
  FoldedDiff(calculateBearing(sorted[i], sorted[i + 1]),
             calculateBearing(sorted[i + 1], sorted[i + 2]))

\* The triple at i is kept: the drone moved and the deviation is below the threshold.
TripleKept(sorted, i, exclude) ==
  MovedSignificantly(sorted, i) /\ TripleDeviation(sorted, i) < turnThreshold(exclude)

\* One iteration of the loop over triples: acc = [total, count, max, name].
KeepDeviation(diff, name, acc) ==
  [total |-> acc.total + diff,
   count |-> acc.count + 1,
   max |-> IF diff > acc.max THEN diff ELSE acc.max,
   name |-> IF diff > acc.max THEN name ELSE acc.name]

\* The iteration recording the name of the first photo of the triple, not the middle.
CurvatureStepFirstName(sorted, i, exclude, acc) ==
  IF TripleKept(sorted, i, exclude)
  THEN KeepDeviation(TripleDeviation(sorted, i), sorted[i].name, acc)
  ELSE acc

CurvatureStep(sorted, i, exclude, acc) ==
  IF TripleKept(sorted, i, exclude)
  THEN KeepDeviation(TripleDeviation(sorted, i), sorted[i + 1].name, acc)
  ELSE acc

\* The values the accumulators of the loop take.
CurvatureAcc == [total : Nat, count : Nat, max : Nat, name : Int]

\* for (let i = 0; i < sorted.length - 2; i++): the accumulators after the loop
\* (i is the 1-based position of the first photo of the triple).
CurvatureLoop(sorted, exclude) ==
  LET loop[i \in Nat, acc \in CurvatureAcc] ==
        IF i > Len(sorted) - 2 THEN acc
        ELSE loop[i + 1, CurvatureStep(sorted, i, exclude, acc)]
  IN loop[1, [total |-> 0, count |-> 0, max |-> 0, name |-> NULL]]

\* The returned object, from the accumulators of the loop.
CurvatureResult(acc) ==
  [avg |-> IF acc.count > 0 THEN acc.total \div acc.count ELSE 0,
   max |-> acc.max,
   maxPhotoName |-> acc.name]

\* The loop over the triples of the photos sorted by timestamp.
CurvatureOfSorted(sorted, exclude) ==
  CurvatureResult(CurvatureLoop(sorted, exclude))

calculateFlightCurvature(ps, exclude) ==
  IF Len(ps) < 3 THEN [avg |-> 0, max |-> 0, maxPhotoName |-> NULL]
  ELSE CurvatureOfSorted(SortByTimestamp(ps), exclude)

\* ------------------------------------------------------------------ OverlapEstimator

\* Ground footprint of the sensor at the given height: sensor * height / focalLength.
Footprint(sensor, relativeHeight, focalLength) ==
  jsDiv(jsMul(Fin(sensor), Fin(relativeHeight)), Fin(focalLength))

\* (1 - dist / ground) * 100
OverlapPercent(dist, ground) ==
  jsMul(jsSub(Fin(SCALE), jsDiv(Fin(dist), ground)), Fin(100 * SCALE))

\* The forward pair with every pair counted: a pair too far apart counts as 0.
ForwardPairAlwaysCounted(dist, groundHeight, acc) ==
  [total |-> jsAdd(acc.total, jsMax(Fin(0), OverlapPercent(dist, groundHeight))),
   count |-> acc.count + 1]

\* The forward loop over consecutive pairs: acc = [total, count].
ForwardPair(dist, groundHeight, acc) ==
  IF jsLt(Fin(dist), jsMul(groundHeight, Fin(2 * SCALE)))
  THEN [total |-> jsAdd(acc.total, jsMax(Fin(0), OverlapPercent(dist, groundHeight))),
        count |-> acc.count + 1]
  ELSE acc

ForwardStep(sorted, i, groundHeight, acc) ==
  ForwardPair(calculateDistance(sorted[i], sorted[i + 1]), groundHeight, acc)

\* The values the accumulators of the two overlap loops take.
OverlapAcc == [total : JsNumber, count : Nat]

\* for (let i = 0; i < sortedPhotos.length - 1; i++): the accumulators after the loop.
ForwardLoop(sorted, groundHeight) ==
  LET loop[i \in Nat, acc \in OverlapAcc] ==
        IF i > Len(sorted) - 1 THEN acc
        ELSE loop[i + 1, ForwardStep(sorted, i, groundHeight, acc)]
  IN loop[1, [total |-> Fin(0), count |-> 0]]

\* Local heading of photo i: towards its successor, or from its predecessor if last.
Heading(sorted, i) ==
  IF i < Len(sorted) THEN calculateBearing(sorted[i], sorted[i + 1])
  ELSE IF i > 1 THEN calculateBearing(sorted[i - 1], sorted[i])
  ELSE 0

\* Minimum number of positions between a photo and a side neighbour.
SequenceGap == 20

\* angleDiff > 45 && angleDiff < 135
IsSideways(angleDiff) == angleDiff > 45 * SCALE /\ angleDiff < 135 * SCALE

\* The filters without the sequence filter: the range and the angle filter alone.
SideAcceptedAnyGap(sorted, i, j, groundWidth) ==
  /\ ~jsGt(Fin(calculateDistance(sorted[i], sorted[j])), jsMul(groundWidth, Fin(3 * SCALE)))
  /\ IsSideways(FoldedDiff(Heading(sorted, i), calculateBearing(sorted[i], sorted[j])))

\* Photo j passes the sequence, range and angle filters for photo i.
SideAccepted(sorted, i, j, groundWidth) ==
  /\ ~(Abs(i - j) < SequenceGap)
  /\ ~jsGt(Fin(calculateDistance(sorted[i], sorted[j])), jsMul(groundWidth, Fin(3 * SCALE)))
  /\ IsSideways(FoldedDiff(Heading(sorted, i), calculateBearing(sorted[i], sorted[j])))

\* The inner loop over j: the smallest accepted distance, or -1 for Infinity.
Smallest(dists) ==
  IF dists = {} THEN -1 ELSE CHOOSE d \in dists : \A e \in dists : d <= e

MinSideDist(sorted, i, groundWidth) ==
  Smallest({calculateDistance(sorted[i], sorted[j]) :
              j \in {k \in 1..Len(sorted) : SideAccepted(sorted, i, k, groundWidth)}})

\* The outer loop with every photo counted: a photo without side neighbour counts as 0.
SideNeighbourAlwaysCounted(minSideDist, groundWidth, acc) ==
  [total |-> IF minSideDist # -1
             THEN jsAdd(acc.total,
                        jsMax(Fin(0), jsMin(Fin(100 * SCALE),
                                            OverlapPercent(minSideDist, groundWidth))))
             ELSE acc.total,
   count |-> acc.count + 1]

\* The outer loop over i: acc = [total, count].
SideNeighbour(minSideDist, groundWidth, acc) ==
  IF minSideDist # -1
  THEN [total |-> jsAdd(acc.total,
                        jsMax(Fin(0), jsMin(Fin(100 * SCALE),
                                            OverlapPercent(minSideDist, groundWidth)))),
        count |-> acc.count + 1]
  ELSE acc

SideStep(sorted, i, groundWidth, acc) ==
  SideNeighbour(MinSideDist(sorted, i, groundWidth), groundWidth, acc)

\* for (let i = 0; i < sortedPhotos.length; i++): the accumulators after the side loop.
SideLoop(sorted, groundWidth) ==
  LET loop[i \in Nat, acc \in OverlapAcc] ==
        IF i > Len(sorted) THEN acc
        ELSE loop[i + 1, SideStep(sorted, i, groundWidth, acc)]
  IN loop[1, [total |-> Fin(0), count |-> 0]]

\* count > 0 ? total / count : 0
AverageOverlap(acc) ==
  IF acc.count > 0 THEN jsDiv(acc.total, Fin(acc.count * SCALE)) ELSE Fin(0)

\* The two loops over the photos sorted by timestamp, and the returned object.
OverlapsOfSorted(sortedPhotos, groundWidth, groundHeight) ==
  [forward |-> AverageOverlap(ForwardLoop(sortedPhotos, groundHeight)),
   side |-> AverageOverlap(SideLoop(sortedPhotos, groundWidth)),
   groundWidth |-> groundWidth,
   groundHeight |-> groundHeight]

\* calculateOverlaps once the footprint is known.
OverlapsWithFootprint(ps, groundWidth, groundHeight) ==
  IF Len(ps) < 2
  THEN [forward |-> Fin(0), side |-> Fin(0),
        groundWidth |-> groundWidth, groundHeight |-> groundHeight]
  ELSE OverlapsOfSorted(SortByTimestamp(ps), groundWidth, groundHeight)

\* num / den rounded to the nearest integer, halves up (num >= 0, den > 0).
RoundedQuotient(num, den) == num \div den + (IF 2 * (num % den) >= den THEN 1 ELSE 0)

\* parseFloat(((drone.sensorWidth / 5472) * (relativeHeight / drone.focalLength) * 100)
\* .toFixed(2)): centimetres per pixel, rounded to hundredths.
EstimatedGSD(drone, relativeHeight) ==
  IF drone.focalLength = 0
  THEN (IF drone.sensorWidth = 0 \/ relativeHeight = 0 THEN NaN ELSE PosInf)
  ELSE Fin(RoundedQuotient(drone.sensorWidth * relativeHeight * SCALE,
                           5472 * drone.focalLength))

\* The returned object with its gsd field.
WithGsd(overlaps, gsd) ==
  [forward |-> overlaps.forward, side |-> overlaps.side, gsd |-> gsd,
   groundWidth |-> overlaps.groundWidth, groundHeight |-> overlaps.groundHeight]

calculateOverlaps(ps, drone, relativeHeight) ==
  WithGsd(OverlapsWithFootprint(ps,
                                Footprint(drone.sensorWidth, relativeHeight, drone.focalLength),
                                Footprint(drone.sensorHeight, relativeHeight, drone.focalLength)),
          IF Len(ps) < 2 THEN Fin(0) ELSE EstimatedGSD(drone, relativeHeight))

\* ------------------------------------------------------------------ speed and area

\* The iteration without the test of timeDiff: every pair counts.
SpeedStepAnyGap(sorted, i, acc) ==
  [dist |-> acc.dist + calculateDistance(sorted[i], sorted[i + 1]),
   time |-> acc.time + (sorted[i + 1].timestamp - sorted[i].timestamp)]

\* One iteration of the loop over consecutive pairs: acc = [dist, time], the distance
\* in hundredths of a metre and the time in milliseconds.  A pair counts when
\* 0 < timeDiff < 60 (seconds).
SpeedStep(sorted, i, acc) ==
  IF sorted[i + 1].timestamp - sorted[i].timestamp > 0
     /\ sorted[i + 1].timestamp - sorted[i].timestamp < 60 * 1000
  THEN [dist |-> acc.dist + calculateDistance(sorted[i], sorted[i + 1]),
        time |-> acc.time + (sorted[i + 1].timestamp - sorted[i].timestamp)]
  ELSE acc

\* for (let i = 0; i < sorted.length - 1; i++): the accumulators after the loop.
SpeedLoop(sorted) ==
  LET loop[i \in Nat, acc \in [dist : Nat, time : Nat]] ==
        IF i > Len(sorted) - 1 THEN acc
        ELSE loop[i + 1, SpeedStep(sorted, i, acc)]
  IN loop[1, [dist |-> 0, time |-> 0]]

\* totalTime > 0 ? totalDist / totalTime : 0, in hundredths of a metre per second.
SpeedOf(acc) == IF acc.time > 0 THEN (acc.dist * 1000) \div acc.time ELSE 0

calculateAverageSpeed(ps) ==
  IF Len(ps) < 2 THEN 0 ELSE SpeedOf(SpeedLoop(SortByTimestamp(ps)))

\* Metres (hundredths) east (x) and north (y) of the origin.
projectToPlane(origin, point) ==
  [x |-> calculateDistance(origin, [lat |-> origin.lat, lng |-> point.lng])
           * (IF point.lng > origin.lng THEN 1 ELSE -1),
   y |-> calculateDistance(origin, [lat |-> point.lat, lng |-> origin.lng])
           * (IF point.lat > origin.lat THEN 1 ELSE -1)]

\* The extremes the forEach loop leaves in minX/maxX (minY/maxY): they start at 0.
Lowest(values) == CHOOSE m \in values \cup {0} : \A v \in values \cup {0} : m <= v
Highest(values) == CHOOSE m \in values \cup {0} : \A v \in values \cup {0} : m >= v
Extent(values) == Highest(values) - Lowest(values)

\* The box computed whatever the number of photos: without the early return.
BoundingBoxAreaUnguarded(ps, marginW, marginH) ==
  IF Len(ps) < 1 THEN Fin(0)
  ELSE jsMul(jsAdd(Fin(Extent({projectToPlane(ps[1], ps[k]).x : k \in 1..Len(ps)})),
                   marginW),
             jsAdd(Fin(Extent({projectToPlane(ps[1], ps[k]).y : k \in 1..Len(ps)})),
                   marginH))

\* The area of the box around the photo positions, widened by the footprint margins.
calculateBoundingBoxArea(ps, marginW, marginH) ==
  IF Len(ps) < 3 THEN Fin(0)
  ELSE jsMul(jsAdd(Fin(Extent({projectToPlane(ps[1], ps[k]).x : k \in 1..Len(ps)})),
                   marginW),
             jsAdd(Fin(Extent({projectToPlane(ps[1], ps[k]).y : k \in 1..Len(ps)})),
                   marginH))

\* ------------------------------------------------------------------ statistics

\* The sums and quotients of calculateStatistics are floating-point operations: each
\* result is rounded to the nearest representable number, ties to the even significand.
\* The model keeps the values in hundredths and gives the format a significand of
\* Precision bits (a double has 53): numbers below 2^Precision hundredths are spaced
\* one hundredth apart, and the spacing doubles with every further bit.
Precision == 12

\* The spacing of the representable numbers at the magnitude n >= 0.
Ulp(n) == 2 ^ Cardinality({e \in 1..(30 - Precision) : n >= 2 ^ (Precision + e - 1)})

\* a / d rounded to the nearest integer, ties to even, times step (a >= 0, d > 0).
RoundToStep(a, d, step) ==
  (a \div d + (IF 2 * (a % d) > d \/ (2 * (a % d) = d /\ (a \div d) % 2 = 1)
               THEN 1 ELSE 0)) * step

\* The floating-point quotient num / den (den > 0).
flDiv(num, den) ==
  Sign(num) * RoundToStep(Abs(num), den * Ulp(Abs(num) \div den), Ulp(Abs(num) \div den))

\* The floating-point sum a + b and difference a - b.
flAdd(a, b) == flDiv(a + b, 1)
flSub(a, b) == flDiv(a - b, 1)

\* Math.pow(d, 2), in squares of a hundredth, and Math.sqrt(v) of such a number (in
\* hundredths again), correctly rounded.
flSquare(d) == flDiv(d * d, 1)
SqrtNearest(n, root) == IF n - root * root > root THEN root + 1 ELSE root
flSqrt(v) == flDiv(SqrtNearest(v, Sqrt(v)), 1)

\* values.reduce((a, b) => a + b, 0)
SumOf(values) ==
  LET loop[i \in Nat, acc \in Int] ==
        IF i > Len(values) THEN acc ELSE loop[i + 1, flAdd(acc, values[i])]
  IN loop[1, 0]

\* values.reduce((a, b) => a + Math.pow(b - mean, 2), 0)
SumOfSquares(values, mean) ==
  LET loop[i \in Nat, acc \in Int] ==
        IF i > Len(values) THEN acc
        ELSE loop[i + 1, flAdd(acc, flSquare(flSub(values[i], mean)))]
  IN loop[1, 0]

\* Math.min(...values) and Math.max(...values) of a non-empty array.
MinOf(values) ==
  CHOOSE m \in {values[k] : k \in 1..Len(values)} : \A k \in 1..Len(values) : m <= values[k]
MaxOf(values) ==
  CHOOSE m \in {values[k] : k \in 1..Len(values)} : \A k \in 1..Len(values) : m >= values[k]

\* The squared deviations divided by the number of values plus one.
StatisticsOfSample(values, mean) ==
  [mean |-> mean,
   stdDev |-> flSqrt(flDiv(SumOfSquares(values, mean), Len(values) + 1)),
   min |-> MinOf(values),
   max |-> MaxOf(values)]

\* The returned object, from the mean.
StatisticsAround(values, mean) ==
  [mean |-> mean,
   stdDev |-> flSqrt(flDiv(SumOfSquares(values, mean), Len(values))),
   min |-> MinOf(values),
   max |-> MaxOf(values)]

calculateStatistics(values) ==
  IF Len(values) = 0 THEN [mean |-> 0, stdDev |-> 0, min |-> 0, max |-> 0]
  ELSE StatisticsAround(values, flDiv(SumOf(values), Len(values)))

\* ------------------------------------------------------------------ ImageQualityAnalyzer

\* A default that flags the image: variance 0, blurry.
DecodeFailureBlurry ==
  [isBlurry |-> TRUE, blurScore |-> [k |-> "fin", v |-> 0],
   isOverexposed |-> FALSE, exposureScore |-> [k |-> "fin", v |-> 0]]

\* What analyzeImageQuality resolves with when the image cannot be decoded.
DecodeFailureResult ==
  [isBlurry |-> FALSE, blurScore |-> Fin(1000 * SCALE),
   isOverexposed |-> FALSE, exposureScore |-> Fin(0)]

\* Math.floor(img.width * Math.min(1, 512 / Math.max(img.width, img.height)))
Downscaled(side, width, height) ==
  LET larger == IF width > height THEN width ELSE height
  IN IF larger <= 512 THEN side ELSE (side * 512) \div larger

\* grayData[i] = 0.299 r + 0.587 g + 0.114 b, stored in a Uint8Array (truncated).
Gray(c) == (299 * c.r + 587 * c.g + 114 * c.b) \div 1000

\* The test with the bound 250 included.
IsOverExposedPixelFrom250(c) == c.r >= 250 /\ c.g >= 250 /\ c.b >= 250

IsOverExposedPixel(c) == c.r > 250 /\ c.g > 250 /\ c.b > 250

\* exposureScore = (overExposedCount / (w * h)) * 100.  The product is taken before the
\* quotient, so that the hundredths kept are those of the exact value.
ExposureScore(data, w, h) ==
  LET overExposedCount == Cardinality({i \in 1..Len(data) : IsOverExposedPixel(data[i])})
  IN jsDiv(Fin(overExposedCount * 100 * SCALE), Fin(w * h * SCALE))

\* The 4-neighbour Laplacian at the 0-based pixel (x, y) of a row-major image of width w.
Laplacian(data, w, x, y) ==
  LET idx == y * w + x + 1
  IN Gray(data[idx - w]) + Gray(data[idx - 1]) - 4 * Gray(data[idx])
     + Gray(data[idx + 1]) + Gray(data[idx + w])

\* laplacianValues: the interior pixels in row-major order (x and y from 1 to w-2, h-2).
LaplacianValues(data, w, h) ==
  IF w < 3 \/ h < 3 THEN <<>>
  ELSE [n \in 1..((w - 2) * (h - 2)) |->
          Laplacian(data, w, 1 + ((n - 1) % (w - 2)), 1 + ((n - 1) \div (w - 2)))]

RECURSIVE SumInts(_, _)
SumInts(vals, k) == IF k = 0 THEN 0 ELSE vals[k] + SumInts(vals, k - 1)

\* Math.pow(d, 2)
Squared(d) == jsMul(d, d)

\* The running sum of Math.pow(laplacianValues[i] - laplacianMean, 2).
RECURSIVE SumSquaredDeviations(_, _, _)
SumSquaredDeviations(vals, mean, k) ==
  IF k = 0 THEN Fin(0)
  ELSE jsAdd(SumSquaredDeviations(vals, mean, k - 1),
             Squared(jsSub(Fin(vals[k] * SCALE), mean)))

\* laplacianVar: laplacianMean /= length; sum of squares; laplacianVar /= length.
LaplacianMean(vals) ==
  jsDiv(Fin(SumInts(vals, Len(vals)) * SCALE), Fin(Len(vals) * SCALE))

LaplacianVariance(vals) ==
  jsDiv(SumSquaredDeviations(vals, LaplacianMean(vals), Len(vals)), Fin(Len(vals) * SCALE))

\* const isBlurry = laplacianVar < 50
BlurThreshold == 50

\* const isOverexposed = exposureScore > 15
ExposureThreshold == 15

\* The result with the blur comparison turned round.
QualityResultBlurryAbove(laplacianVar, exposureScore) ==
  [isBlurry |-> jsGt(laplacianVar, [k |-> "fin", v |-> 50 * SCALE]),
   blurScore |-> laplacianVar,
   isOverexposed |-> jsGt(exposureScore, [k |-> "fin", v |-> 15 * SCALE]),
   exposureScore |-> exposureScore]

\* The body of img.onload once the pixels are read.
QualityResult(laplacianVar, exposureScore) ==
  [isBlurry |-> jsLt(laplacianVar, Fin(BlurThreshold * SCALE)),
   blurScore |-> laplacianVar,
   isOverexposed |-> jsGt(exposureScore, Fin(ExposureThreshold * SCALE)),
   exposureScore |-> exposureScore]

AnalyzePixels(data, w, h) ==
  QualityResult(LaplacianVariance(LaplacianValues(data, w, h)), ExposureScore(data, w, h))

\* analyzeImageQuality(file).  An image is [decodes, ctx, width, height, data]: whether
\* it loads, whether the canvas gives a 2d context, its natural size, and the pixels
\* drawImage puts on the w x h canvas.

\* img.onload for the canvas size w x h resolves the promise, unless getImageData
\* throws (a canvas side of 0) inside the handler, where nothing rejects the promise.
OnLoadSettles(img, w, h) == ~img.ctx \/ (w > 0 /\ h > 0)

\* What img.onload resolves the promise with.
OnLoadValue(img, w, h) ==
  IF ~img.ctx THEN DecodeFailureResult ELSE AnalyzePixels(img.data, w, h)

\* The promise settles: img.onerror resolves it, or img.onload does.
Settles(img) ==
  ~img.decodes \/ OnLoadSettles(img, Downscaled(img.width, img.width, img.height),
                                Downscaled(img.height, img.width, img.height))

\* The value the promise is resolved with.
Resolved(img) ==
  IF ~img.decodes THEN DecodeFailureResult
  ELSE OnLoadValue(img, Downscaled(img.width, img.width, img.height),
                   Downscaled(img.height, img.width, img.height))

analyzeImageQuality(img) == [settles |-> Settles(img), value |-> Resolved(img)]

\* ------------------------------------------------------------------ TelemetryStatusParser
\* A text is a sequence of one-character strings.

Digits == <<"0", "1", "2", "3", "4", "5", "6", "7", "8", "9">>
IsDigit(c) == \E d \in 1..10 : Digits[d] = c
DigitValue(c) == (CHOOSE d \in 1..10 : Digits[d] = c) - 1
\* \s, as far as it can occur inside a line
IsSpace(c) == c \in {" ", "\t", "\r"}

\* content.split('\n'): the lines read so far and the line being read.
SplitLines(content) ==
  LET split[k \in Nat, lines \in Seq(Seq(STRING)), cur \in Seq(STRING)] ==
        IF k > Len(content) THEN Append(lines, cur)
        ELSE IF content[k] = "\n" THEN split[k + 1, Append(lines, cur), <<>>]
        ELSE split[k + 1, lines, Append(cur, content[k])]
  IN split[1, <<>>, <<>>]

RECURSIVE TrimStart(_)
TrimStart(line) ==
  IF line # <<>> /\ IsSpace(Head(line)) THEN TrimStart(Tail(line)) ELSE line

RECURSIVE TrimEnd(_)
TrimEnd(line) ==
  IF line # <<>> /\ IsSpace(line[Len(line)])
  THEN TrimEnd(SubSeq(line, 1, Len(line) - 1)) ELSE line

\* line.trim()
Trim(line) == TrimEnd(TrimStart(line))

\* The length of the run of digits that starts the line.
RECURSIVE DigitRun(_, _)
DigitRun(line, k) ==
  IF k <= Len(line) /\ IsDigit(line[k]) THEN DigitRun(line, k + 1) ELSE k - 1

\* trimmed.match(/^(\d+)\s+/): the length of the captured digits, 0 if no match.
DigitsThenSpace(trimmed, n) ==
  IF n >= 1 /\ n < Len(trimmed) /\ IsSpace(trimmed[n + 1]) THEN n ELSE 0

\* The match of /^(\d+)/, without the white space after the digits.
MatchIndexDigitsOnly(trimmed) == DigitRun(trimmed, 1)

MatchIndex(trimmed) == DigitsThenSpace(trimmed, DigitRun(trimmed, 1))

\* parseInt(digits, 10)
RECURSIVE ParseInt(_, _)
ParseInt(line, n) ==
  IF n = 0 THEN 0 ELSE ParseInt(line, n - 1) * 10 + DigitValue(line[n])

\* trimmed.includes(sub)
Includes(line, sub) ==
  \E k \in 1..(Len(line) - Len(sub) + 1) : SubSeq(line, k, k + Len(sub) - 1) = sub

Q50 == <<"5", "0", ",", "Q">>
Q20 == <<"2", "0", ",", "Q">>
Q34 == <<"3", "4", ",", "Q">>

\* The classification testing the FLOAT tokens before the FIXED token.
LineStatusFloatFirst(trimmed) ==
  IF Includes(trimmed, Q20) \/ Includes(trimmed, Q34) THEN "FLOAT"
  ELSE IF Includes(trimmed, Q50) THEN "FIXED"
  ELSE "SINGLE"

\* The status chosen for a trimmed line.
LineStatus(trimmed) ==
  IF Includes(trimmed, Q50) THEN "FIXED"
  ELSE IF Includes(trimmed, Q20) \/ Includes(trimmed, Q34) THEN "FLOAT"
  ELSE "SINGLE"

\* new Map(): no entries.
EmptyMap == [k \in {} |-> "SINGLE"]

\* The body of lines.forEach: the map after one line.
\* statusMap.set(index, status)
MapSet(map, index, status) ==
  [k \in (DOMAIN map) \cup {index} |-> IF k = index THEN status ELSE map[k]]

\* The body of the callback after the match: n digits were captured (0: no match).
ParseMatched(map, trimmed, n) ==
  IF n = 0 THEN map ELSE MapSet(map, ParseInt(trimmed, n), LineStatus(trimmed))

\* The body of the callback on the trimmed line.
ParseTrimmed(map, trimmed) ==
  IF trimmed = <<>> THEN map ELSE ParseMatched(map, trimmed, MatchIndex(trimmed))

ParseLine(map, line) == ParseTrimmed(map, Trim(line))

\* lines.forEach(...): the map after the first k lines.
RECURSIVE ParseLines(_, _)
ParseLines(lines, k) ==
  IF k = 0 THEN EmptyMap ELSE ParseLine(ParseLines(lines, k - 1), lines[k])

\* parseMrkContent(content): a function from the indices that have an entry.
ParseAll(lines) == ParseLines(lines, Len(lines))
parseMrkContent(content) == ParseAll(SplitLines(content))

\* ------------------------------------------------------------------ photo records

\* An optional field that is absent.
Undefined == "undefined"

\* photo.imageQuality when no quality result is attached.
NoImageQuality ==
  [present |-> FALSE, analyzed |-> FALSE, isBlurry |-> FALSE, blurScore |-> Fin(0),
   isOverexposed |-> FALSE, exposureScore |-> Fin(0)]

\* { ...result, analyzed: true }
AttachedQuality(result) ==
  [present |-> TRUE, analyzed |-> TRUE, isBlurry |-> result.isBlurry,
   blurScore |-> result.blurScore, isOverexposed |-> result.isOverexposed,
   exposureScore |-> result.exposureScore]

\* photo.file of a record that holds no file reference (file?: File).
NoFile == [present |-> FALSE]

\* if (updatedPhotos[i].file)
HasFile(photo) == photo.file # NoFile

\* The loop of runQualityCheck passes the photos without file with no await: the
\* position, from `from` on, of the first photo that has a file (Len(ps) + 1: none).
FirstWithFile(ps, from) ==
  from + Cardinality({j \in from..Len(ps) : \A m \in from..j : ~HasFile(ps[m])})

\* processedPhotos.push({...}): the record made of a file that carries GPS tags.
PhotoOf(file) ==
  [name |-> file.name, lat |-> file.lat, lng |-> file.lng, alt |-> file.alt,
   timestamp |-> file.timestamp, rtkStatus |-> Undefined,
   imageQuality |-> NoImageQuality, file |-> file.img]

\* ------------------------------------------------------------------ PhotoUploader

IsMrk(file) == file.kind = "mrk"
IsJpeg(file) == file.kind = "jpg"

\* imageFiles: the JPEG files of the selection that are not .mrk files, in order.
IsImageFile(file) == ~IsMrk(file) /\ IsJpeg(file)
ImageFiles(files) == SelectSeq(files, IsImageFile)

HasMrk(files) == \E k \in 1..Len(files) : IsMrk(files[k])

\* mrkFile: the last .mrk file of the selection.
MrkFile(files) ==
  files[CHOOSE k \in 1..Len(files) :
          IsMrk(files[k]) /\ \A m \in (k + 1)..Len(files) : ~IsMrk(files[m])]

\* if (lat && lng): the file carries both GPS tags.
HasGps(file) == file.gps

\* The photos processFile pushes: one per image file with both GPS tags, in file order.
PhotosOf(tagged) == SubSeq([k \in 1..Len(tagged) |-> PhotoOf(tagged[k])], 1, Len(tagged))
ProcessFiles(imageFiles) == PhotosOf(SelectSeq(imageFiles, HasGps))

\* processedPhotos.sort((a, b) => a.name.localeCompare(b.name))
SortByName(ps) ==
  StableSort(ps, SubSeq([k \in 1..Len(ps) |-> ps[k].name], 1, Len(ps)))

\* The annotation that ranks photos without an entry SINGLE.
MapRtkStatusDefaultSingle(ps, rtkMap) ==
  SubSeq([index \in 1..Len(ps) |->
            [ps[index] EXCEPT !.rtkStatus = IF index \in DOMAIN rtkMap
                                            THEN rtkMap[index] ELSE "SINGLE"]], 1, Len(ps))

\* const rtkStatus = rtkMap.get(index + 1); if (rtkStatus) photo.rtkStatus = rtkStatus
MapRtkStatus(ps, rtkMap) ==
  SubSeq([index \in 1..Len(ps) |->
            IF index \in DOMAIN rtkMap
            THEN [ps[index] EXCEPT !.rtkStatus = rtkMap[index]]
            ELSE ps[index]], 1, Len(ps))

\* The rtkMap handleFileChange works with.
RtkMapOf(files) == IF HasMrk(files) THEN parseMrkContent(MrkFile(files).text) ELSE EmptyMap

\* The collection handleFileChange hands to onPhotosProcessed.
ProcessedPhotos(files) ==
  MapRtkStatus(SortByName(ProcessFiles(ImageFiles(files))), RtkMapOf(files))

\* ------------------------------------------------------------------ FlightMetrics

\* The sentinel of rtkFixedRatio ("no RTK data"): -1.
NoRtkData == 0 - SCALE

\* rtkFixedRatio = photos[0].rtkStatus ? (fixedCount / photos.length) * 100 : -1
RtkFixedRatio(ps) ==
  LET fixedCount == Cardinality({k \in 1..Len(ps) : ps[k].rtkStatus = "FIXED"})
  IN IF ps[1].rtkStatus # Undefined
     THEN (fixedCount * 100 * SCALE) \div Len(ps)
     ELSE NoRtkData

\* photos.filter(p => p.imageQuality?.isBlurry).length
BlurryCount(ps) ==
  Cardinality({k \in 1..Len(ps) : ps[k].imageQuality.present /\ ps[k].imageQuality.isBlurry})

\* photos.filter(p => p.imageQuality?.isOverexposed).length
OverexposedCount(ps) ==
  Cardinality({k \in 1..Len(ps) :
                 ps[k].imageQuality.present /\ ps[k].imageQuality.isOverexposed})

\* metrics === null
NoMetrics ==
  [ok |-> FALSE, avgForwardOverlap |-> Fin(0), avgSideOverlap |-> Fin(0),
   flightLineCurvature |-> 0, maxFlightLineCurvature |-> 0,
   maxCurvaturePhotoName |-> NULL, rtkFixedRatio |-> NoRtkData,
   qualityIssues |-> [blurryCount |-> 0, overexposedCount |-> 0],
   singlePhotoW |-> Fin(0), singlePhotoH |-> Fin(0)]

\* photos.map(p => p.alt) and altitudes.map(alt => alt - flightHeight)
Altitudes(ps) == SubSeq([k \in 1..Len(ps) |-> ps[k].alt], 1, Len(ps))
TerrainAltitudes(ps, height) ==
  SubSeq([k \in 1..Len(ps) |-> flSub(ps[k].alt, height * SCALE)], 1, Len(ps))

\* The calendar day toLocaleDateString prints: the days from 1 January 1970 to the
\* local date of the instant, in a host whose clock is tz minutes ahead of UTC.
LocalDate(timestamp, tz) == (timestamp + tz * 60 * 1000) \div (24 * 60 * 60 * 1000)

\* The HH:MM:SS of an instant, as the seconds since midnight.
TimeOfDay(timestamp) == (timestamp % (24 * 60 * 60 * 1000)) \div 1000

\* jobDate, startTime, startGpsTime and startBdtTime of the first photo's timestamp.
TimingOf(timestamp, tz) ==
  [jobDate |-> LocalDate(timestamp, tz),
   startTime |-> TimeOfDay(timestamp + tz * 60 * 1000),
   startGpsTime |-> TimeOfDay(timestamp + 18000),
   startBdtTime |-> TimeOfDay(timestamp + 4000)]

\* The FlightMetrics object, from the results of the analyses.
MetricsOf(ps, overlapData, curvatureData, altStats, terrainStats, sorted, timing) ==
  [ok |-> TRUE,
   avgAltitude |-> altStats.mean,
   altitudeStdDev |-> altStats.stdDev,
   minAltitude |-> altStats.min,
   maxAltitude |-> altStats.max,
   avgRelativeAltitude |-> Undefined,
   avgForwardOverlap |-> overlapData.forward,
   avgSideOverlap |-> overlapData.side,
   groundResolution |-> overlapData.gsd,
   areaCovered |-> calculateBoundingBoxArea(ps, overlapData.groundWidth,
                                            overlapData.groundHeight),
   flightDuration |-> (sorted[Len(sorted)].timestamp - sorted[1].timestamp) \div 600,
   avgSpeed |-> calculateAverageSpeed(ps),
   flightLineCurvature |-> curvatureData.avg,
   maxFlightLineCurvature |-> curvatureData.max,
   maxCurvaturePhotoName |-> curvatureData.maxPhotoName,
   rtkFixedRatio |-> RtkFixedRatio(ps),
   qualityIssues |-> [blurryCount |-> BlurryCount(ps),
                      overexposedCount |-> OverexposedCount(ps)],
   jobDate |-> timing.jobDate,
   startTime |-> timing.startTime,
   startGpsTime |-> timing.startGpsTime,
   startBdtTime |-> timing.startBdtTime,
   singlePhotoW |-> overlapData.groundWidth,
   singlePhotoH |-> overlapData.groundHeight,
   singlePhotoArea |-> jsMul(overlapData.groundWidth, overlapData.groundHeight),
   estTerrainMax |-> terrainStats.max,
   estTerrainMin |-> terrainStats.min,
   estTerrainDiff |-> flSub(terrainStats.max, terrainStats.min)]

\* The useMemo body in a host whose clock is tz minutes ahead of UTC: the
\* FlightMetrics of the collection, or null below 2 photos.
MetricsAt(ps, drone, height, exclude, tz) ==
  IF Len(ps) < 2 THEN NoMetrics
  ELSE MetricsOf(ps, calculateOverlaps(ps, drone, height * SCALE),
                 calculateFlightCurvature(ps, exclude),
                 calculateStatistics(Altitudes(ps)),
                 calculateStatistics(TerrainAltitudes(ps, height)),
                 SortByTimestamp(ps),
                 TimingOf(SortByTimestamp(ps)[1].timestamp, tz))

\* A useMemo body that keeps the largest deviation seen by the computations before it.
ComputeMetricsCarryingMax(ps, drone, height, exclude) ==
  IF Len(ps) < 2 THEN NoMetrics
  ELSE [MetricsAt(ps, drone, height, exclude, timeZone) EXCEPT
          !.maxFlightLineCurvature =
             IF metrics.maxFlightLineCurvature > @ THEN metrics.maxFlightLineCurvature ELSE @]

\* The useMemo body.
ComputeMetrics(ps, drone, height, exclude) == MetricsAt(ps, drone, height, exclude, timeZone)

\* ------------------------------------------------------------------ App state

IdleUploader == [pc |-> "idle", files |-> <<>>]
IdleQualityCheck == [pc |-> "idle", i |-> 0, aliased |-> FALSE]
NothingParsed == [called |-> FALSE, content |-> <<>>, map |-> EmptyMap]
NoCall == [fn |-> "none"]

\* aiReport === null, and no handleAnalysis call awaiting the service.
NoReport == [present |-> FALSE]
NoAnalysis == [pc |-> "idle"]

\* DRONE_PRESETS (sensor sizes and focal length in hundredths of a millimetre).
DRONE_PRESETS ==
  << [name |-> "DJI Mavic 3 Enterprise (Wide)",
      sensorWidth |-> 1730, sensorHeight |-> 1300, focalLength |-> 1229],
     [name |-> "DJI Phantom 4 RTK",
      sensorWidth |-> 1320, sensorHeight |-> 880, focalLength |-> 880] >>

\* The state after construction (useState initial values).
Init ==
  /\ photos = <<>>
  /\ selectedDrone = DRONE_PRESETS[1]
  /\ flightHeight = 100
  /\ excludeTurns = FALSE
  /\ metrics = NoMetrics
  /\ isCheckingQuality = FALSE
  /\ qualityCheckProgress = 0
  /\ qc = IdleQualityCheck
  /\ updatedPhotos = <<>>
  /\ uploader = IdleUploader
  /\ parsed = NothingParsed
  /\ call = NoCall
  /\ timeZone = 8 * 60
  /\ analysisStatus = "IDLE"
  /\ aiReport = NoReport
  /\ analysis = NoAnalysis

\* handleFileChange up to its first await.  The file input is disabled while a quality
\* pass runs or a selection is being processed; a selection without image files
\* returns with nothing changed.
UploadStart(files) ==
  /\ uploader.pc = "idle"
  /\ ~isCheckingQuality
  /\ Len(files) > 0
  /\ Len(ImageFiles(files)) > 0
  /\ uploader' = [pc |-> "processing", files |-> files]
  /\ UNCHANGED <<photos, selectedDrone, flightHeight, excludeTurns, metrics,
                 isCheckingQuality, qualityCheckProgress, qc, updatedPhotos, parsed, call, timeZone, reportVars>>

\* setPhotos(newPhotos) and the re-render that follows: the memoised metrics are
\* recomputed from the new collection.
SetPhotos(newPhotos) ==
  /\ photos' = newPhotos
  /\ metrics' = ComputeMetrics(newPhotos, selectedDrone, flightHeight, excludeTurns)

\* handleFileChange from its last await on: the log is parsed, the photos are sorted
\* and annotated, onPhotosProcessed (setPhotos) replaces the collection with fresh
\* records, and the metrics are recomputed.
UploadFinish ==
  /\ uploader.pc = "processing"
  /\ SetPhotos(ProcessedPhotos(uploader.files))
  /\ parsed' = IF HasMrk(uploader.files)
               THEN [called |-> TRUE, content |-> MrkFile(uploader.files).text,
                     map |-> RtkMapOf(uploader.files)]
               ELSE NothingParsed
  /\ uploader' = IdleUploader
  /\ qc' = [qc EXCEPT !.aliased = FALSE]
  /\ UNCHANGED <<selectedDrone, flightHeight, excludeTurns,
                 isCheckingQuality, qualityCheckProgress, updatedPhotos, call, timeZone, reportVars>>

\* onPhotosProcessed={setPhotos} called by a producer of photo records: the collection
\* is replaced by the records handed over, whose file is optional, and the metrics are
\* recomputed.  The producer is told a running pass by isProcessing={isCheckingQuality}
\* and hands nothing over meanwhile.
PhotosProcessed(newPhotos) ==
  /\ ~isCheckingQuality
  /\ SetPhotos(newPhotos)
  /\ qc' = [qc EXCEPT !.aliased = FALSE]
  /\ UNCHANGED <<selectedDrone, flightHeight, excludeTurns, isCheckingQuality,
                 qualityCheckProgress, updatedPhotos, uploader, parsed, call, timeZone, reportVars>>

\* onChange of the design-height input: setFlightHeight(Number(e.target.value)).
SetFlightHeight(h) ==
  /\ Len(photos) > 0
  /\ flightHeight' = h
  /\ metrics' = ComputeMetrics(photos, selectedDrone, h, excludeTurns)
  /\ UNCHANGED <<photos, selectedDrone, excludeTurns, isCheckingQuality,
                 qualityCheckProgress, qc, updatedPhotos, uploader, parsed, call, timeZone, reportVars>>

\* onChange of the drone select: setSelectedDrone(drone).
SelectDrone(drone) ==
  /\ Len(photos) > 0
  /\ selectedDrone' = drone
  /\ metrics' = ComputeMetrics(photos, drone, flightHeight, excludeTurns)
  /\ UNCHANGED <<photos, flightHeight, excludeTurns, isCheckingQuality,
                 qualityCheckProgress, qc, updatedPhotos, uploader, parsed, call, timeZone, reportVars>>

\* onToggleExcludeTurns = setExcludeTurns.
ToggleExcludeTurns(val) ==
  /\ Len(photos) > 0
  /\ excludeTurns' = val
  /\ metrics' = ComputeMetrics(photos, selectedDrone, flightHeight, val)
  /\ UNCHANGED <<photos, selectedDrone, flightHeight, isCheckingQuality,
                 qualityCheckProgress, qc, updatedPhotos, uploader, parsed, call, timeZone, reportVars>>

\* i % 5 === 0 || i === updatedPhotos.length - 1, for the 1-based position i of n.
Publishes(i, n) == (i - 1) % 5 = 0 \/ i = n

\* Math.round(((i + 1) / updatedPhotos.length) * 100), for the 1-based position i of n.
ProgressAt(i, n) == (200 * i + n) \div (2 * n)

\* runQualityCheck behind a button that stays in place, and without its early return:
\* a click starts a pass whether or not one is running.
RunQualityCheckWhileRunning ==
  /\ metrics.ok
  /\ Len(photos) > 0
  /\ isCheckingQuality' = (FirstWithFile(photos, 1) <= Len(photos))
  /\ qualityCheckProgress' = 0
  /\ qc' = IF FirstWithFile(photos, 1) <= Len(photos)
           THEN [pc |-> "awaiting", i |-> FirstWithFile(photos, 1), aliased |-> TRUE]
           ELSE IdleQualityCheck
  /\ updatedPhotos' = IF FirstWithFile(photos, 1) <= Len(photos) THEN photos ELSE <<>>
  /\ UNCHANGED <<photos, selectedDrone, flightHeight, excludeTurns, metrics,
                 uploader, parsed, call, timeZone, reportVars>>

\* A click on the quality button (shown with metrics, when no pass runs and the
\* progress is 0): runQualityCheck up to its first await, at the first photo that has
\* a file, or to its end if no photo has one.  updatedPhotos is a new array of the
\* same photo objects.
RunQualityCheck ==
  /\ metrics.ok
  /\ ~isCheckingQuality
  /\ qualityCheckProgress = 0
  /\ Len(photos) > 0
  /\ isCheckingQuality' = (FirstWithFile(photos, 1) <= Len(photos))
  /\ qualityCheckProgress' = 0
  /\ qc' = IF FirstWithFile(photos, 1) <= Len(photos)
           THEN [pc |-> "awaiting", i |-> FirstWithFile(photos, 1), aliased |-> TRUE]
           ELSE IdleQualityCheck
  /\ updatedPhotos' = IF FirstWithFile(photos, 1) <= Len(photos) THEN photos ELSE <<>>
  /\ UNCHANGED <<photos, selectedDrone, flightHeight, excludeTurns, metrics,
                 uploader, parsed, call, timeZone, reportVars>>

\* updatedPhotos[i].imageQuality = { ...result, analyzed: true }: the photo object at i
\* takes the result of the analysis of its own file.
WithQuality(ps, i) ==
  [ps EXCEPT ![i].imageQuality = AttachedQuality(Resolved(ps[i].file))]

\* A photo after the one being analysed has a file: the loop reaches another await.
PassGoesOn == FirstWithFile(updatedPhotos, qc.i + 1) <= Len(updatedPhotos)

\* The awaited analyzeImageQuality promise settles and runQualityCheck runs on to its
\* next await, or to its end: the loop variable, the progress and the flag.
PassAdvances ==
  /\ qc.pc = "awaiting"
  /\ Settles(updatedPhotos[qc.i].file)
  /\ qc' = IF PassGoesOn
           THEN [pc |-> "awaiting", i |-> FirstWithFile(updatedPhotos, qc.i + 1),
                 aliased |-> (Publishes(qc.i, Len(updatedPhotos)) \/ qc.aliased)]
           ELSE IdleQualityCheck
  /\ qualityCheckProgress' = IF Publishes(qc.i, Len(updatedPhotos))
                             THEN ProgressAt(qc.i, Len(updatedPhotos))
                             ELSE qualityCheckProgress
  /\ isCheckingQuality' = PassGoesOn

\* The same step, on the photos: the result is written into the photo object, which the
\* collection shares while it holds the objects of updatedPhotos; a publishing
\* iteration sets the collection to a new array of these objects.
ResultAttached ==
  /\ updatedPhotos' = IF PassGoesOn THEN WithQuality(updatedPhotos, qc.i) ELSE <<>>
  /\ IF Publishes(qc.i, Len(updatedPhotos))
     THEN SetPhotos(WithQuality(updatedPhotos, qc.i))
     ELSE /\ photos' = IF qc.aliased THEN WithQuality(photos, qc.i) ELSE photos
          /\ metrics' = metrics

\* One iteration of the loop of runQualityCheck, from the settling of the awaited
\* promise to the next await or the end of the pass.
ImageSettles ==
  /\ PassAdvances
  /\ ResultAttached
  /\ UNCHANGED <<selectedDrone, flightHeight, excludeTurns, uploader, parsed, call, timeZone, reportVars>>

\* A click on the report button (shown with metrics while the status is IDLE, disabled
\* while a quality pass runs) or on the retry link (shown while the status is ERROR):
\* handleAnalysis up to its await.  Without an API key in the active configuration it
\* returns with the status unchanged; with one it sets ANALYZING and passes the
\* metrics, the drone and the number of photos of this render to analyzeFlightData.
HandleAnalysis(apiKey) ==
  /\ metrics.ok
  /\ (analysisStatus = "IDLE" /\ ~isCheckingQuality) \/ analysisStatus = "ERROR"
  /\ analysisStatus' = IF apiKey THEN "ANALYZING" ELSE analysisStatus
  /\ analysis' = IF apiKey
                 THEN [pc |-> "awaiting", metrics |-> metrics, drone |-> selectedDrone,
                       photoCount |-> Len(photos)]
                 ELSE analysis
  /\ UNCHANGED <<photos, selectedDrone, flightHeight, excludeTurns, metrics,
                 isCheckingQuality, qualityCheckProgress, qc, updatedPhotos, uploader,
                 parsed, call, timeZone, aiReport>>

\* The text analyzeFlightData returns: the service's analysis of the values passed.
ReportOn(request) ==
  [present |-> TRUE, failed |-> FALSE, metrics |-> request.metrics,
   drone |-> request.drone, photoCount |-> request.photoCount]

\* The text of the catch branch of handleAnalysis.
FailureText == [present |-> TRUE, failed |-> TRUE]

\* The awaited analyzeFlightData promise settles: resolved, setAiReport(report) and
\* COMPLETED; rejected, setAiReport of the failure text and ERROR.
AnalysisSettles(resolved) ==
  /\ analysis.pc = "awaiting"
  /\ aiReport' = IF resolved THEN ReportOn(analysis) ELSE FailureText
  /\ analysisStatus' = IF resolved THEN "COMPLETED" ELSE "ERROR"
  /\ analysis' = NoAnalysis
  /\ UNCHANGED <<photos, selectedDrone, flightHeight, excludeTurns, metrics,
                 isCheckingQuality, qualityCheckProgress, qc, updatedPhotos, uploader,
                 parsed, call, timeZone>>

\* The export button is shown (metrics held, status COMPLETED, aiReport not empty) and
\* handleDownloadReport passes its guard (!metrics || !aiReport).
CanExport == metrics.ok /\ analysisStatus = "COMPLETED" /\ aiReport.present

\* What generateHtmlReport(metrics, selectedDrone, photos, aiReport, inspectorName)
\* is called with.
ExportedReport ==
  [metrics |-> metrics, drone |-> selectedDrone, photoCount |-> Len(photos),
   aiReport |-> aiReport]

\* A click on the export button: handleDownloadReport builds the report of this
\* render's state and hands it to the browser as a download; no state is set.
HandleDownloadReport ==
  /\ CanExport
  /\ UNCHANGED vars

\* The host's time zone is changed (the operating-system setting, which the running
\* page picks up); nothing of the App is re-rendered.
TimeZoneChanges(tz) ==
  /\ timeZone' = tz
  /\ UNCHANGED <<photos, selectedDrone, flightHeight, excludeTurns, metrics,
                 isCheckingQuality, qualityCheckProgress, qc, updatedPhotos, uploader,
                 parsed, call, reportVars>>

\* ------------------------------------------------------------------ inputs

\* A pixel of the canvas.
RGB(r, g, b) == [r |-> r, g |-> g, b |-> b]

\* A w x h image whose pixels are `base`, except those at the positions `spots`.
Picture(w, h, base, other, spots) ==
  [decodes |-> TRUE, ctx |-> TRUE, width |-> w, height |-> h,
   data |-> SubSeq([k \in 1..(w * h) |-> IF k \in spots THEN other ELSE base], 1, w * h)]

\* The image files of the model.
Images ==
  [ \* a sharp, well exposed 4 x 3 image
    sharp |-> Picture(4, 3, RGB(200, 200, 200), RGB(255, 255, 255), {6}),
    \* a uniform (blurry), fully overexposed 3 x 3 image
    white |-> Picture(3, 3, RGB(255, 255, 255), RGB(255, 255, 255), {}),
    \* a file that does not load as an image (img.onerror)
    broken |-> [decodes |-> FALSE, ctx |-> TRUE, width |-> 0, height |-> 0, data |-> <<>>],
    \* an image for which the canvas gives no 2d context
    noContext |-> [Picture(3, 3, RGB(255, 255, 255), RGB(255, 255, 255), {})
                     EXCEPT !.ctx = FALSE],
    \* a 1024 x 1 image: it is scaled to a 512 x 0 canvas
    thin |-> [decodes |-> TRUE, ctx |-> TRUE, width |-> 1024, height |-> 1, data |-> <<>>],
    \* a uniform gray 3 x 3 image
    gray |-> Picture(3, 3, RGB(200, 200, 200), RGB(200, 200, 200), {}),
    \* a 4 x 4 image with a faint texture
    speckled |-> Picture(4, 4, RGB(200, 200, 200), RGB(210, 210, 210), {6, 11}),
    \* images without interior pixels
    small |-> Picture(2, 2, RGB(200, 200, 200), RGB(255, 255, 255), {1}),
    row |-> Picture(3, 1, RGB(255, 255, 255), RGB(255, 255, 255), {}),
    column |-> Picture(1, 3, RGB(200, 200, 200), RGB(210, 210, 210), {2}),
    dot |-> Picture(1, 1, RGB(255, 255, 250), RGB(255, 255, 250), {}),
    \* a uniform gray 5 x 5 image
    plain |-> Picture(5, 5, RGB(128, 128, 128), RGB(128, 128, 128), {}),
    \* 5 x 4 images with 3 and with 4 white pixels of 20 (15 and 20 per cent)
    edge |-> Picture(5, 4, RGB(200, 200, 200), RGB(255, 255, 255), {1, 2, 3}),
    bright |-> Picture(5, 4, RGB(200, 200, 200), RGB(251, 251, 251), {1, 2, 3, 8}) ]

JpegFile(name, lat, lng, timestamp, img) ==
  [name |-> name, kind |-> "jpg", gps |-> TRUE, lat |-> lat, lng |-> lng, alt |-> 500,
   timestamp |-> timestamp, text |-> <<>>, img |-> img]

LogFile(text) ==
  [name |-> 0, kind |-> "mrk", gps |-> FALSE, lat |-> 0, lng |-> 0, alt |-> 0,
   timestamp |-> 0, text |-> text, img |-> Images.broken]

\* An image file whose EXIF data lacks the GPS tags.
Untagged(file) == [file EXCEPT !.gps = FALSE]

\* Largest number of photos of a survey flight of the model.
MaxPhotos == 22
\* Photos per flight strip.
StripLength == 10

\* Cross-track offsets of a wavering flight line, in units of the plan's amplitude.
Waver == <<0, 1, 3, 0>>

\* The k-th image (in capture order) of a flight plan: strips of StripLength photos
\* flown east and back west, `spacing` metres between photos, `offset` metres between
\* strips, wavering across track by `amplitude`; one photo every 2 s.  With
\* `reversed`, the file names run against the capture order.
PlanFile(plan, k) ==
  LET idx == k - 1
      strip == idx \div StripLength
      pos == idx % StripLength
      along == IF strip % 2 = 0 THEN pos * plan.spacing
               ELSE (StripLength - 1 - pos) * plan.spacing
      across == strip * plan.offset + plan.amplitude * Waver[(idx % 4) + 1]
  IN JpegFile(IF plan.reversed THEN plan.n + 1 - k ELSE k,
              across, along, 2000 * idx, Images.sharp)

PlanFiles(plan) == SubSeq([k \in 1..plan.n |-> PlanFile(plan, k)], 1, plan.n)

Plan(n, spacing, offset, amplitude, reversed) ==
  [n |-> n, spacing |-> spacing, offset |-> offset, amplitude |-> amplitude,
   reversed |-> reversed]

\* The survey flights uploaded to the metrics engine.
FlightPlans ==
  { Plan(2, 30, 60, 0, FALSE),              \* two photos
    Plan(3, 20, 0, 0, FALSE),               \* a straight line, 20 m apart
    Plan(5, 30, 0, 3, TRUE),                \* a wavering line, names reversed
    Plan(6, 3, 0, 0, FALSE),                \* a slow line, 3 m apart
    Plan(20, 30, 60, 0, FALSE),             \* twenty photos in strips 60 m apart
    Plan(MaxPhotos, 30, 60, 0, FALSE),      \* three strips 60 m apart
    Plan(MaxPhotos, 30, 60, 3, FALSE),      \* the same, wavering
    Plan(MaxPhotos - 1, 30, 0, 0, FALSE),   \* the strips retrace one another
    Plan(MaxPhotos - 1, 0, 0, 0, FALSE) }   \* hovering

SurveyUploads == {PlanFiles(plan) : plan \in FlightPlans}

\* Values typed into the design-height input (an emptied input gives 0).
FlightHeights == {0, 60, 100}

Drones == {DRONE_PRESETS[k] : k \in 1..Len(DRONE_PRESETS)}

\* Time zones of the host: China Standard Time and Pacific Standard Time.
TimeZones == {8 * 60, 0 - 8 * 60}

\* The k-th photo of a short straight flight, 20 m after its predecessor.
ShortFlightFile(k, img) == JpegFile(k, 0, 20 * (k - 1), 2000 * (k - 1), img)

\* The k-th photo of a short flight during which the camera's file counter rolls over:
\* DJI_0998.JPG, DJI_0999.JPG, DJI_0001.JPG.
RolledOverFile(k) ==
  JpegFile(IF k < 3 THEN 997 + k ELSE 1, 0, 20 * (k - 1), 2000 * (k - 1), Images.sharp)

\* Lines of RTK logs, as their characters.
Lines ==
  [ One_Fixed |-> <<"1", " ", "5", "0", ",", "Q">>,
    Two_Float |-> <<"2", " ", " ", "3", "4", ",", "Q">>,
    Three_Single |-> <<"3", " ", "9", "9", ",", "Q">>,
    Two_FloatAndFixed |-> <<"2", " ", "3", "4", ",", "Q", " ", "5", "0", ",", "Q">>,
    Three_Fixed150 |-> <<"3", "\t", "1", "5", "0", ",", "Q">>,
    One_FloatPadded |-> <<" ", "1", " ", "2", "0", ",", "Q", "\r">>,
    NoIndex |-> <<"x", " ", "5", "0", ",", "Q">>,
    IndexOnly |-> <<"2">>,
    IndexComma |-> <<"3", ",", "5", "0", ",", "Q">>,
    One_Single |-> <<"1", " ", "Q">>,
    Ten_Fixed |-> <<"1", "0", " ", "5", "0", ",", "Q">>,
    ZeroOne_Float |-> <<"0", "1", "\t", "2", "0", ",", "Q">>,
    Blank |-> <<" ", "\r">>,
    Empty |-> <<>> ]

\* The text of the lines, joined by line feeds.
RECURSIVE JoinLines(_)
JoinLines(lines) ==
  IF Len(lines) = 0 THEN <<>>
  ELSE IF Len(lines) = 1 THEN lines[1]
  ELSE lines[1] \o <<"\n">> \o JoinLines(Tail(lines))

\* The RTK logs uploaded with the photos.
LogTexts ==
  { JoinLines(<<Lines.One_Fixed, Lines.Two_Float, Lines.Three_Single>>),
    JoinLines(<<Lines.Two_FloatAndFixed, Lines.Three_Fixed150>>),
    JoinLines(<<Lines.One_FloatPadded, Lines.Empty, Lines.NoIndex, Lines.IndexOnly>>),
    JoinLines(<<Lines.IndexComma, Lines.One_Fixed, Lines.One_Single>>),
    JoinLines(<<Lines.Ten_Fixed, Lines.ZeroOne_Float, Lines.Blank>>),
    JoinLines(<<Lines.Two_Float, Lines.Empty>>),
    JoinLines(<<Lines.One_Fixed, Lines.Two_FloatAndFixed, Lines.Three_Fixed150>>),
    JoinLines(<<Lines.NoIndex, Lines.IndexOnly>>),
    JoinLines(<<>>) }

\* Selections of three photos and a log; in some the second file lacks its GPS tags.
LoggedUploads ==
  {<<ShortFlightFile(1, Images.sharp), ShortFlightFile(2, Images.sharp),
     ShortFlightFile(3, Images.sharp), LogFile(text)>> : text \in LogTexts}
  \cup
  {<<LogFile(text), ShortFlightFile(3, Images.sharp),
     Untagged(ShortFlightFile(2, Images.sharp)), ShortFlightFile(1, Images.sharp)>> :
     text \in LogTexts}
  \cup
  {<<ShortFlightFile(1, Images.sharp), ShortFlightFile(2, Images.sharp)>>}
  \cup
  {<<RolledOverFile(1), RolledOverFile(2), RolledOverFile(3), LogFile(text)>> :
     text \in LogTexts}

\* A selection of photos of a short flight with the given images.
ImageUpload(imgs) ==
  SubSeq([k \in 1..Len(imgs) |-> ShortFlightFile(k, imgs[k])], 1, Len(imgs))

\* The selections uploaded for the quality pass.
ImageUploads ==
  { ImageUpload(<<Images.sharp, Images.white, Images.broken>>),
    ImageUpload(<<Images.noContext, Images.sharp>>),
    ImageUpload(<<Images.small, Images.gray>>),
    ImageUpload(<<Images.sharp, Images.thin, Images.white>>),
    ImageUpload(<<Images.broken, Images.noContext>>),
    ImageUpload(<<Images.row, Images.column, Images.dot>>),
    ImageUpload(<<Images.speckled, Images.gray, Images.white, Images.sharp, Images.broken, Images.gray>>),
    ImageUpload(<<Images.plain, Images.white>>),
    ImageUpload(<<Images.edge, Images.bright, Images.white>>) }

\* A photo record of a short flight that holds no file reference.
WithoutFile(k) == [PhotoOf(ShortFlightFile(k, Images.sharp)) EXCEPT !.file = NoFile]

\* The record of photo k with the given pixel data, or with none.
RecordOf(k, pixels) ==
  IF pixels = NoFile THEN WithoutFile(k) ELSE PhotoOf(ShortFlightFile(k, pixels))

\* What a record may hold as pixel data.
PixelData == {Images.sharp, Images.white, NoFile}

\* The longest collection of records handed over.
MaxRecords == 3

\* The collections of records handed to onPhotosProcessed: in order of name and time,
\* each record with or without a file.
RecordCollections ==
  UNION {{SubSeq([k \in 1..n |-> RecordOf(k, pixels[k])], 1, n) : pixels \in [1..n -> PixelData]} :
           n \in 2..MaxRecords}

\* ------------------------------------------------------------------ direct calls

\* The state of the App, which a call of an exported function leaves alone.
appVars == <<photos, selectedDrone, flightHeight, excludeTurns, metrics,
             isCheckingQuality, qualityCheckProgress, qc, updatedPhotos, uploader, parsed,
             timeZone, reportVars>>

\* Photos the functions of utils.ts are called with: the photo named k, taken at
\* (lat, lng) at the given time.
Shot(k, lat, lng, timestamp) == PhotoOf(JpegFile(k, lat, lng, timestamp, Images.sharp))

\* Along a line heading east: 30 m, 80 m and, veering north, 139 m apart.
Shots ==
  { Shot(1, 0, 0, 0), Shot(2, 0, 30, 2000), Shot(3, 0, 110, 4000), Shot(4, 50, 240, 6000) }

\* Largest collection handed to a function called on its own.
MaxCallPhotos == 4

\* Photos with clock faults: two taken at the same instant 40 m apart, one 5 s later,
\* and one a full minute after that.
TimedShots ==
  { Shot(1, 0, 0, 0), Shot(2, 0, 40, 0), Shot(3, 0, 100, 5000), Shot(4, 0, 300, 65000) }

TimedLists == UNION {[1..n -> TimedShots] : n \in 0..MaxCallPhotos}

\* The photos of an upload whose RTK log has no line for the first photo, in every
\* order of the array.
LoggedShots ==
  { Shot(1, 0, 0, 0),
    [Shot(2, 0, 30, 2000) EXCEPT !.rtkStatus = "FIXED"],
    [Shot(3, 0, 110, 4000) EXCEPT !.rtkStatus = "FLOAT"] }

LoggedLists ==
  {ps \in [1..Cardinality(LoggedShots) -> LoggedShots] :
     \A p \in LoggedShots : \E k \in 1..Cardinality(LoggedShots) : ps[k] = p}

\* The collections of up to MaxCallPhotos photos, the empty one included.
ShotLists == UNION {[1..n -> Shots] : n \in 0..MaxCallPhotos}

\* Heights calculateOverlaps is called with, in metres.
CallHeights == FlightHeights \cup {20}

\* Footprint margins handed to calculateBoundingBoxArea.
Margins == { <<Fin(0), Fin(0)>>, <<Fin(150 * SCALE), Fin(100 * SCALE)>> }

\* calculateOverlaps(photos, drone, relativeHeight)
CallCalculateOverlaps(ps, drone, relativeHeight) ==
  /\ call = NoCall
  /\ call' = [fn |-> "calculateOverlaps", photos |-> ps, drone |-> drone,
              relativeHeight |-> relativeHeight,
              result |-> calculateOverlaps(ps, drone, relativeHeight * SCALE),
              after |-> SortedCopy(ps).photos]
  /\ UNCHANGED appVars

\* calculateAverageSpeed(photos)
CallCalculateAverageSpeed(ps) ==
  /\ call = NoCall
  /\ call' = [fn |-> "calculateAverageSpeed", photos |-> ps,
              result |-> calculateAverageSpeed(ps),
              after |-> SortedCopy(ps).photos]
  /\ UNCHANGED appVars

\* calculateFlightCurvature(photos, excludeTurns)
CallCalculateFlightCurvature(ps, exclude) ==
  /\ call = NoCall
  /\ call' = [fn |-> "calculateFlightCurvature", photos |-> ps, excludeTurns |-> exclude,
              result |-> calculateFlightCurvature(ps, exclude),
              after |-> SortedCopy(ps).photos]
  /\ UNCHANGED appVars

\* calculateBoundingBoxArea(photos, marginW, marginH)
CallCalculateBoundingBoxArea(ps, marginW, marginH) ==
  /\ call = NoCall
  /\ call' = [fn |-> "calculateBoundingBoxArea", photos |-> ps,
              marginW |-> marginW, marginH |-> marginH,
              result |-> calculateBoundingBoxArea(ps, marginW, marginH),
              after |-> ps]
  /\ UNCHANGED appVars

\* Numbers calculateStatistics is called with (altitudes in hundredths of a metre).
Values == {0 - 300, 500, 2734, 2738}
ValueLists == UNION {[1..n -> Values] : n \in 0..MaxCallPhotos}

\* calculateStatistics(values)
CallCalculateStatistics(values) ==
  /\ call = NoCall
  /\ call' = [fn |-> "calculateStatistics", values |-> values,
              result |-> calculateStatistics(values),
              after |-> values]
  /\ UNCHANGED appVars

\* The body of the metrics useMemo, run on a collection of its own.
CallComputeMetrics(ps, drone, height, exclude) ==
  /\ call = NoCall
  /\ call' = [fn |-> "metrics", photos |-> ps, drone |-> drone, flightHeight |-> height,
              excludeTurns |-> exclude,
              result |-> MetricsAt(ps, drone, height, exclude, timeZone),
              after |-> SortedCopy(ps).photos]
  /\ UNCHANGED appVars

\* Points calculateBearing is called with: the metre grid around the origin.
Reach == 3
Places == [lat : (0 - Reach)..Reach, lng : (0 - Reach)..Reach]

\* calculateBearing(p1, p2)
CallCalculateBearing(p1, p2) ==
  /\ call = NoCall
  /\ call' = [fn |-> "calculateBearing", p1 |-> p1, p2 |-> p2,
              result |-> calculateBearing(p1, p2)]
  /\ UNCHANGED appVars

\* ------------------------------------------------------------------ specification

Next ==
  \/ \E files \in SurveyUploads : UploadStart(files)
  \/ UploadFinish
  \/ \E h \in FlightHeights : SetFlightHeight(h)
  \/ \E drone \in Drones : SelectDrone(drone)
  \/ \E val \in BOOLEAN : ToggleExcludeTurns(val)

\* The metrics engine behind the App: uploads of survey flights and changes of the
\* flight parameters, each followed by the recomputation of the metrics.
Spec == Init /\ [][Next]_vars

\* The uploader: selections of photos with RTK logs.
NextUpload ==
  \/ \E files \in LoggedUploads : UploadStart(files)
  \/ UploadFinish

SpecUpload == Init /\ [][NextUpload]_vars

\* The quality pass over uploaded photos.
NextQuality ==
  \/ \E files \in ImageUploads : UploadStart(files)
  \/ UploadFinish
  \/ RunQualityCheck
  \/ ImageSettles

SpecQuality == Init /\ [][NextQuality]_vars

\* The quality pass under the scheduling of the browser: the handler of an image that
\* has loaded or failed to load is eventually run, and with it the continuation of
\* runQualityCheck that awaits the result.  The only steps that are PassAdvances steps
\* are the ImageSettles steps, and ImageSettles is enabled exactly when PassAdvances is.
SpecQualityFair ==
  SpecQuality /\ WF_<<qc, isCheckingQuality, qualityCheckProgress>>(PassAdvances)

\* The quality pass over collections of records with and without files.
NextRecords ==
  \/ \E ps \in RecordCollections : PhotosProcessed(ps)
  \/ RunQualityCheck
  \/ ImageSettles

SpecRecords == Init /\ [][NextRecords]_vars

\* The selection uploaded before a report is asked for.
ReportUploads == { ImageUpload(<<Images.sharp, Images.white>>) }

\* The report panel in the App: uploads, changes of the flight parameters, quality
\* passes, AI analyses and exports.
NextReport ==
  \/ \E files \in ReportUploads : UploadStart(files)
  \/ UploadFinish
  \/ \E h \in FlightHeights : SetFlightHeight(h)
  \/ \E drone \in Drones : SelectDrone(drone)
  \/ \E val \in BOOLEAN : ToggleExcludeTurns(val)
  \/ RunQualityCheck
  \/ ImageSettles
  \/ \E apiKey \in BOOLEAN : HandleAnalysis(apiKey)
  \/ \E resolved \in BOOLEAN : AnalysisSettles(resolved)
  \/ HandleDownloadReport

SpecReport == Init /\ [][NextReport]_vars

\* The exported functions of utils.ts called on their own, with any arguments: each
\* behaviour follows one call.
NextUtils ==
  \/ \E ps \in ShotLists, drone \in Drones, h \in CallHeights :
       CallCalculateOverlaps(ps, drone, h)
  \/ \E ps \in ShotLists \cup TimedLists : CallCalculateAverageSpeed(ps)
  \/ \E ps \in ShotLists, exclude \in BOOLEAN : CallCalculateFlightCurvature(ps, exclude)
  \/ \E ps \in ShotLists, m \in Margins : CallCalculateBoundingBoxArea(ps, m[1], m[2])
  \/ \E values \in ValueLists : CallCalculateStatistics(values)
  \/ \E p1 \in Places, p2 \in Places : CallCalculateBearing(p1, p2)
  \/ \E ps \in ShotLists \cup LoggedLists, exclude \in BOOLEAN :
       CallComputeMetrics(ps, selectedDrone, flightHeight, exclude)

SpecUtils == Init /\ [][NextUtils]_vars

\* The metrics engine on the shorter flights, in a host whose time zone may change.
NextHost ==
  \/ \E plan \in {p \in FlightPlans : p.n <= 6} : UploadStart(PlanFiles(plan))
  \/ UploadFinish
  \/ \E h \in FlightHeights : SetFlightHeight(h)
  \/ \E drone \in Drones : SelectDrone(drone)
  \/ \E val \in BOOLEAN : ToggleExcludeTurns(val)
  \/ \E tz \in TimeZones : TimeZoneChanges(tz)

SpecHost == Init /\ [][NextHost]_vars

\* ------------------------------------------------------------------ overlap range

\* C1: whatever collection, drone profile and design height the overlaps were computed
\* from, the forward and the side overlap of the metrics are numbers between 0 and 100
\* (never NaN).
C1_OverlapsInRange ==
  metrics.ok => /\ InPercentRange(metrics.avgForwardOverlap)
                /\ InPercentRange(metrics.avgSideOverlap)

\* ------------------------------------------------------------------ curvature

\* The triples of the path that the loop keeps, by the position of their first photo.
KeptTriples(ps, exclude) ==
  {i \in 1..(Len(ps) - 2) : TripleKept(SortByTimestamp(ps), i, exclude)}

\* The deviations of the kept triples.
KeptDeviations(ps, exclude) ==
  {TripleDeviation(SortByTimestamp(ps), i) : i \in KeptTriples(ps, exclude)}

\* C2: on the path of the collection, the maximum deviation with turn exclusion on is
\* never larger than the maximum deviation with turn exclusion off.
C2_ExcludeTurnsNeverLarger ==
  calculateFlightCurvature(photos, TRUE).max <= calculateFlightCurvature(photos, FALSE).max

\* A path on which turn exclusion discards the largest deviation and keeps a smaller one.
C2_Witness ==
  /\ calculateFlightCurvature(photos, TRUE).max > 0
  /\ calculateFlightCurvature(photos, TRUE).max < calculateFlightCurvature(photos, FALSE).max

\* C3 as stated: the reported name is null only when no triple is kept; when a triple
\* is kept, the reported maximum is the largest kept deviation and the name is that of
\* the middle photo of a kept triple with that deviation.
C3_NameNullOnlyWithoutTriples ==
  metrics.ok =>
    /\ (metrics.maxCurvaturePhotoName = NULL) <=> (KeptTriples(photos, excludeTurns) = {})
    /\ KeptTriples(photos, excludeTurns) # {} =>
         /\ metrics.maxFlightLineCurvature \in KeptDeviations(photos, excludeTurns)
         /\ \A d \in KeptDeviations(photos, excludeTurns) : d <= metrics.maxFlightLineCurvature
         /\ \E i \in KeptTriples(photos, excludeTurns) :
              /\ TripleDeviation(SortByTimestamp(photos), i) = metrics.maxFlightLineCurvature
              /\ SortByTimestamp(photos)[i + 1].name = metrics.maxCurvaturePhotoName

\* C3, amended: the reported maximum is the largest kept deviation, or 0 when no triple
\* is kept; the name is null exactly when that maximum is 0, and otherwise it is the
\* name of the middle photo of a kept triple whose deviation is the maximum.
C3_NameOfLargestPositiveDeviation ==
  metrics.ok =>
    /\ metrics.maxFlightLineCurvature \in KeptDeviations(photos, excludeTurns) \cup {0}
    /\ \A d \in KeptDeviations(photos, excludeTurns) : d <= metrics.maxFlightLineCurvature
    /\ (metrics.maxCurvaturePhotoName = NULL) <=> (metrics.maxFlightLineCurvature = 0)
    /\ metrics.maxCurvaturePhotoName # NULL =>
         \E i \in KeptTriples(photos, excludeTurns) :
           /\ TripleDeviation(SortByTimestamp(photos), i) = metrics.maxFlightLineCurvature
           /\ SortByTimestamp(photos)[i + 1].name = metrics.maxCurvaturePhotoName

\* Metrics of a path with several kept triples of different deviations, whose names
\* run against the capture order.
C3_Witness ==
  /\ metrics.ok
  /\ Cardinality(KeptDeviations(photos, excludeTurns)) >= 2
  /\ metrics.maxCurvaturePhotoName # NULL
  /\ photos[1].timestamp > photos[2].timestamp

\* ------------------------------------------------------------------ RTK log (C4, C5)

\* The lines of the log parsed by the last upload.
LogLines == SplitLines(parsed.content)

\* The number of decimal digits the trimmed line k begins with.
LeadingDigits(k) == DigitRun(Trim(LogLines[k]), 1)

\* The decimal index the trimmed line k begins with.
LeadingIndex(k) == ParseInt(Trim(LogLines[k]), LeadingDigits(k))

\* Line k begins with a decimal index.
BeginsWithIndex(k) == LeadingDigits(k) >= 1

\* Line k begins with a decimal index that white space follows.
BeginsWithIndexAndSpace(k) ==
  /\ BeginsWithIndex(k)
  /\ LeadingDigits(k) < Len(Trim(LogLines[k]))
  /\ IsSpace(Trim(LogLines[k])[LeadingDigits(k) + 1])

\* Line k is the last line of the log that sets the entry of its index.
SetsEntry(k) ==
  /\ BeginsWithIndexAndSpace(k)
  /\ \A m \in (k + 1)..Len(LogLines) :
        BeginsWithIndexAndSpace(m) => LeadingIndex(m) # LeadingIndex(k)

\* C4: the entry of every indexed line is FIXED if the line contains "50,Q", otherwise
\* FLOAT if it contains "20,Q" or "34,Q", otherwise SINGLE; FIXED wins over the FLOAT
\* tokens on the same line.
C4_StatusByContent ==
  parsed.called =>
    \A k \in 1..Len(LogLines) :
      SetsEntry(k) =>
        /\ LeadingIndex(k) \in DOMAIN parsed.map
        /\ parsed.map[LeadingIndex(k)] =
             IF Includes(LogLines[k], Q50) THEN "FIXED"
             ELSE IF Includes(LogLines[k], Q20) \/ Includes(LogLines[k], Q34) THEN "FLOAT"
             ELSE "SINGLE"

\* A parsed log with a line that carries a FLOAT token and the FIXED token.
C4_Witness ==
  /\ parsed.called
  /\ \E k \in 1..Len(LogLines) :
       /\ SetsEntry(k)
       /\ Includes(LogLines[k], Q34) /\ Includes(LogLines[k], Q50)
       /\ parsed.map[LeadingIndex(k)] = "FIXED"
  /\ \E k \in 1..Len(LogLines) : SetsEntry(k) /\ ~Includes(LogLines[k], Q34)

\* C5 as stated: the parser returns for every text (no step of it can throw), every
\* non-empty line that begins with a decimal index produces an entry for that index,
\* and the other lines produce none.
C5_EntryForEveryLeadingIndex ==
  parsed.called =>
    /\ \A k \in 1..Len(LogLines) : BeginsWithIndex(k) => LeadingIndex(k) \in DOMAIN parsed.map
    /\ \A index \in DOMAIN parsed.map :
         \E k \in 1..Len(LogLines) : BeginsWithIndex(k) /\ LeadingIndex(k) = index

\* C5, amended: the parser returns for every text, and the entries of the map are the
\* indices of the lines that, trimmed, begin with a decimal index followed by white
\* space; an index that ends its line or that another character follows produces no
\* entry, as empty lines and lines without a leading index produce none.
C5_EntryForIndexThenSpace ==
  parsed.called =>
    DOMAIN parsed.map =
      {LeadingIndex(k) : k \in {m \in 1..Len(LogLines) : BeginsWithIndexAndSpace(m)}}

\* A parsed log with an empty line, a line without index, a line that is only an
\* index, and a line that produced an entry.
C5_Witness ==
  /\ parsed.called
  /\ DOMAIN parsed.map # {}
  /\ \E k \in 1..Len(LogLines) : LogLines[k] = <<>>
  /\ \E k \in 1..Len(LogLines) : Trim(LogLines[k]) # <<>> /\ ~BeginsWithIndex(k)
  /\ \E k \in 1..Len(LogLines) : BeginsWithIndex(k) /\ ~BeginsWithIndexAndSpace(k)

\* ------------------------------------------------------------------ RTK status (C6, C7)

\* C6: after an upload with an RTK log, a photo whose 1-based position has no entry in
\* the parsed log has no rtkStatus, and a photo whose position has an entry carries
\* the status of that entry.
C6_StatusOnlyFromLog ==
  parsed.called =>
    \A k \in 1..Len(photos) :
      photos[k].rtkStatus = IF k \in DOMAIN parsed.map THEN parsed.map[k] ELSE Undefined

\* An upload whose log covers some positions and leaves others out.
C6_Witness ==
  /\ parsed.called
  /\ \E k \in 1..Len(photos) : k \notin DOMAIN parsed.map /\ photos[k].rtkStatus = Undefined
  /\ \E k \in 1..Len(photos) : k \in DOMAIN parsed.map /\ photos[k].rtkStatus = "FLOAT"

\* C7: the ratio of the metrics is the sentinel -1 exactly when no photo of the
\* collection carries an RTK status.
C7_SentinelIffNoStatus ==
  metrics.ok =>
    ((metrics.rtkFixedRatio = NoRtkData) <=>
       (\A k \in 1..Len(photos) : photos[k].rtkStatus = Undefined))

\* ------------------------------------------------------------------ quality pass (C8, C9, C10)

\* The image cannot be decoded: it fails to load, or the canvas gives no 2d context.
CannotDecode(img) == ~img.decodes \/ ~img.ctx

\* The quality pass awaits the analysis of an image that cannot be decoded.
AwaitsUndecodable ==
  qc.pc = "awaiting" /\ CannotDecode(updatedPhotos[qc.i].file)

\* The photos of the collection whose image can be decoded and that carry a result.
AnalyzedDecodable(ps) ==
  {k \in 1..Len(ps) : ~CannotDecode(ps[k].file) /\ ps[k].imageQuality.present}

\* C8: the analysis of an image that cannot be decoded resolves with exactly
\* {isBlurry: false, blurScore: 1000, isOverexposed: false, exposureScore: 0}; the pass
\* that awaits it goes on; the photo takes that result, and the blurry and overexposed
\* counts never count a photo that could not be decoded.
C8_DecodeFailureDefault ==
  /\ \A k \in 1..Len(photos) :
       CannotDecode(photos[k].file) =>
         /\ analyzeImageQuality(photos[k].file) =
              [settles |-> TRUE,
               value |-> [isBlurry |-> FALSE, blurScore |-> Fin(1000 * SCALE),
                          isOverexposed |-> FALSE, exposureScore |-> Fin(0)]]
         /\ photos[k].imageQuality.present =>
              /\ photos[k].imageQuality.analyzed
              /\ ~photos[k].imageQuality.isBlurry
              /\ photos[k].imageQuality.blurScore = Fin(1000 * SCALE)
              /\ ~photos[k].imageQuality.isOverexposed
              /\ photos[k].imageQuality.exposureScore = Fin(0)
  /\ AwaitsUndecodable => Settles(updatedPhotos[qc.i].file)
  /\ BlurryCount(photos) <= Cardinality(AnalyzedDecodable(photos))
  /\ OverexposedCount(photos) <= Cardinality(AnalyzedDecodable(photos))
  /\ metrics.ok =>
       /\ metrics.qualityIssues.blurryCount <= Cardinality(AnalyzedDecodable(photos))
       /\ metrics.qualityIssues.overexposedCount <= Cardinality(AnalyzedDecodable(photos))

\* A pass that has gone on past an image that could not be decoded.
C8_Witness ==
  /\ qc.pc = "awaiting"
  /\ qc.i >= 2
  /\ CannotDecode(photos[qc.i - 1].file)
  /\ photos[qc.i - 1].imageQuality.present

\* C9: a quality pass that has started eventually finishes and clears
\* isCheckingQuality, whatever its images do.
C9_PassFinishes == isCheckingQuality ~> ~isCheckingQuality

\* C10: the result of every decoded image carries a blurScore that is a number, at
\* least 0, the population variance of the Laplacian over the interior pixels, and
\* isBlurry holds exactly when the blurScore is below 50.
C10_BlurScoreDefined ==
  \A k \in AnalyzedDecodable(photos) :
    /\ IsFin(photos[k].imageQuality.blurScore)
    /\ photos[k].imageQuality.blurScore.v >= 0
    /\ photos[k].imageQuality.blurScore =
         LaplacianVariance(LaplacianValues(photos[k].file.data,
                                           Downscaled(photos[k].file.width,
                                                      photos[k].file.width,
                                                      photos[k].file.height),
                                           Downscaled(photos[k].file.height,
                                                      photos[k].file.width,
                                                      photos[k].file.height)))
    /\ photos[k].imageQuality.isBlurry <=>
         (photos[k].imageQuality.blurScore.v < BlurThreshold * SCALE)

\* ------------------------------------------------------------------ uniform images (C11)

\* The sides of the canvas the image is drawn on.
CanvasWidth(img) == Downscaled(img.width, img.width, img.height)
CanvasHeight(img) == Downscaled(img.height, img.width, img.height)

\* All pixels of the image have the same colour.
Uniform(img) == \A i, j \in 1..Len(img.data) : img.data[i] = img.data[j]

\* The analysed photos whose decoded image is uniform and has interior pixels on its
\* canvas.
AnalyzedUniform ==
  {k \in AnalyzedDecodable(photos) :
     /\ Uniform(photos[k].file)
     /\ CanvasWidth(photos[k].file) >= 3
     /\ CanvasHeight(photos[k].file) >= 3}

\* C11: the result of every decoded uniform image with interior pixels has blurScore 0
\* and isBlurry true.
C11_UniformImageBlurry ==
  \A k \in AnalyzedUniform :
    /\ photos[k].imageQuality.blurScore = Fin(0)
    /\ photos[k].imageQuality.isBlurry

\* A collection in which a uniform gray and a uniform white image have been analysed.
C11_Witness ==
  /\ \E k \in AnalyzedUniform : Gray(photos[k].file.data[1]) = 200
  /\ \E k \in AnalyzedUniform : Gray(photos[k].file.data[1]) = 255

\* ------------------------------------------------------------------ exposure (C12)

\* The number of pixels of the image with R > 250, G > 250 and B > 250.
BrightPixels(img) ==
  Cardinality({i \in 1..Len(img.data) :
                 img.data[i].r > 250 /\ img.data[i].g > 250 /\ img.data[i].b > 250})

\* C12: the result of every decoded image has exposureScore = 100 x (bright pixels) /
\* (pixels), between 0 and 100, and isOverexposed exactly when the score is above 15;
\* an all-white image has the score 100 and is overexposed.
C12_ExposureScore ==
  \A k \in AnalyzedDecodable(photos) :
    /\ photos[k].imageQuality.exposureScore =
         Fin((100 * SCALE * BrightPixels(photos[k].file)) \div Len(photos[k].file.data))
    /\ photos[k].imageQuality.exposureScore.v >= 0
    /\ photos[k].imageQuality.exposureScore.v <= 100 * SCALE
    /\ photos[k].imageQuality.isOverexposed <=>
         (photos[k].imageQuality.exposureScore.v > 15 * SCALE)
    /\ photos[k].imageQuality.isOverexposed <=>
         (100 * BrightPixels(photos[k].file) > 15 * Len(photos[k].file.data))
    /\ BrightPixels(photos[k].file) = Len(photos[k].file.data) =>
         /\ photos[k].imageQuality.exposureScore = Fin(100 * SCALE)
         /\ photos[k].imageQuality.isOverexposed

\* Analysed images with exactly 15 per cent, with 20 per cent and with all of their
\* pixels bright.
C12_Witness ==
  /\ \E k \in AnalyzedDecodable(photos) :
       /\ photos[k].imageQuality.exposureScore = Fin(15 * SCALE)
       /\ ~photos[k].imageQuality.isOverexposed
  /\ \E k \in AnalyzedDecodable(photos) :
       /\ photos[k].imageQuality.exposureScore = Fin(20 * SCALE)
       /\ photos[k].imageQuality.isOverexposed
  /\ \E k \in AnalyzedDecodable(photos) :
       BrightPixels(photos[k].file) = Len(photos[k].file.data)

\* ---- minimum cardinality (C13)

\* C13: below its minimum number of photos every metric function returns its default:
\* calculateOverlaps (fewer than 2) forward 0 and side 0, calculateAverageSpeed (fewer
\* than 2) 0, calculateFlightCurvature (fewer than 3) avg 0, max 0 and no photo name,
\* calculateBoundingBoxArea (fewer than 3) 0.
C13_DefaultsBelowMinimum ==
  /\ (call.fn = "calculateOverlaps" /\ Len(call.photos) < 2)
       => (call.result.forward = Fin(0) /\ call.result.side = Fin(0))
  /\ (call.fn = "calculateAverageSpeed" /\ Len(call.photos) < 2)
       => call.result = 0
  /\ (call.fn = "calculateFlightCurvature" /\ Len(call.photos) < 3)
       => call.result = [avg |-> 0, max |-> 0, maxPhotoName |-> NULL]
  /\ (call.fn = "calculateBoundingBoxArea" /\ Len(call.photos) < 3)
       => call.result = Fin(0)

\* calculateBoundingBoxArea was called with two photos apart and non-zero margins.
C13_Witness ==
  /\ call.fn = "calculateBoundingBoxArea"
  /\ Len(call.photos) = 2
  /\ call.photos[1].lng # call.photos[2].lng
  /\ call.marginW = Fin(150 * SCALE)
  /\ call.result = Fin(0)

\* ---- recomputation (C14)

\* The four inputs of the memoised computation, and the FlightMetrics they give in a
\* host whose clock is tz minutes ahead of UTC.
Recomputed(tz) == MetricsAt(photos, selectedDrone, flightHeight, excludeTurns, tz)

MetricFunctions ==
  {"calculateOverlaps", "calculateFlightCurvature", "calculateAverageSpeed",
   "calculateBoundingBoxArea", "metrics"}

\* C15: computing the metrics (calculateOverlaps, calculateFlightCurvature,
\* calculateAverageSpeed, calculateBoundingBoxArea, calculateStatistics and the metrics
\* assembly) leaves the input array unchanged: the same elements in the same order with
\* the same field values.
C15_InputArrayUnchanged ==
  /\ call.fn \in MetricFunctions => call.after = call.photos
  /\ call.fn = "calculateStatistics" => call.after = call.values

\* A function that sorts was called with photos that are not in time order.
C15_Witness ==
  /\ call.fn \in {"calculateOverlaps", "calculateFlightCurvature", "calculateAverageSpeed"}
  /\ Len(call.photos) = MaxCallPhotos
  /\ call.photos # SortByTimestamp(call.photos)
  /\ call.after = call.photos

\* ---- footprint and ground sample distance (C16)

\* v (hundredths) is num / den hundredths rounded to the nearest: no hundredth is
\* nearer to the quotient.
IsNearest(v, num, den) ==
  \/ v = num \div den /\ 2 * (num % den) <= den
  \/ v = num \div den + 1 /\ 2 * (num % den) >= den

\* C16: for every photo collection, the empty and the single-photo one included,
\* calculateOverlaps returns groundWidth = sensorWidth * h / focalLength, groundHeight =
\* sensorHeight * h / focalLength and gsd = (sensorWidth / 5472) * (h / focalLength) * 100
\* rounded to 2 decimals; a 13.2 x 8.8 mm sensor with focal length 8.8 mm at h = 100
\* gives groundWidth 150 and groundHeight 100.
C16_FootprintAndGsd ==
  call.fn = "calculateOverlaps" =>
    /\ call.result.groundWidth =
         Fin((call.drone.sensorWidth * call.relativeHeight * SCALE) \div call.drone.focalLength)
    /\ call.result.groundHeight =
         Fin((call.drone.sensorHeight * call.relativeHeight * SCALE) \div call.drone.focalLength)
    /\ IsFin(call.result.gsd)
    /\ IsNearest(call.result.gsd.v,
                 call.drone.sensorWidth * call.relativeHeight * SCALE * SCALE,
                 5472 * call.drone.focalLength)
    /\ (call.drone.sensorWidth = 1320 /\ call.drone.sensorHeight = 880
        /\ call.drone.focalLength = 880 /\ call.relativeHeight = 100)
         => (call.result.groundWidth = Fin(150 * SCALE)
             /\ call.result.groundHeight = Fin(100 * SCALE))

\* ---- statistics (C17)

\* The sum of the squared deviations from the mean and the sum of the magnitudes, exact.
SquaredDeviations(values, mean) ==
  LET loop[i \in Nat, acc \in Int] ==
        IF i > Len(values) THEN acc
        ELSE loop[i + 1, acc + (values[i] - mean) * (values[i] - mean)]
  IN loop[1, 0]

Magnitudes(values) ==
  LET loop[i \in Nat, acc \in Int] ==
        IF i > Len(values) THEN acc ELSE loop[i + 1, acc + Abs(values[i])]
  IN loop[1, 0]

\* stdDev is the square root of the population variance about the mean, to within t.
IsRootOfVariance(values, mean, stdDev, t) ==
  /\ stdDev >= 0
  /\ (IF stdDev > t THEN (stdDev - t) * (stdDev - t) ELSE 0) * Len(values)
       <= SquaredDeviations(values, mean)
  /\ SquaredDeviations(values, mean) <= (stdDev + t) * (stdDev + t) * Len(values)

\* What C17 says of every sequence but for the place of the mean.
StatisticsButMean(values, result) ==
  /\ Len(values) = 0 => result = [mean |-> 0, stdDev |-> 0, min |-> 0, max |-> 0]
  /\ Len(values) = 1 =>
       result = [mean |-> values[1], stdDev |-> 0, min |-> values[1], max |-> values[1]]
  /\ Len(values) > 0 =>
       /\ \A k \in 1..Len(values) : result.min <= values[k] /\ values[k] <= result.max
       /\ IsRootOfVariance(values, result.mean, result.stdDev, 1 + Ulp(result.stdDev))

\* C17, as stated: calculateStatistics returns {0, 0, 0, 0} for the empty sequence and
\* {mean: x, stdDev: 0, min: x, max: x} for [x]; for every non-empty sequence
\* min <= mean <= max and stdDev is the square root of the population variance.
C17_Statistics ==
  call.fn = "calculateStatistics" =>
    /\ StatisticsButMean(call.values, call.result)
    /\ Len(call.values) > 0 =>
         (call.result.min <= call.result.mean /\ call.result.mean <= call.result.max)

\* C17, amended: the mean is the rounded quotient of the rounded sum, which lies in
\* [min, max] up to rounding: by less than one unit in the last place of the sum of the
\* magnitudes, and not at all when that sum is small enough to be exact.
C17_StatisticsUpToRounding ==
  call.fn = "calculateStatistics" =>
    /\ StatisticsButMean(call.values, call.result)
    /\ Len(call.values) > 0 =>
         /\ call.result.min - Ulp(Magnitudes(call.values)) < call.result.mean
         /\ call.result.mean < call.result.max + Ulp(Magnitudes(call.values))
         /\ Ulp(Magnitudes(call.values)) = 1 =>
              (call.result.min <= call.result.mean /\ call.result.mean <= call.result.max)

\* calculateStatistics was called with three equal values and returned a smaller mean.
C17_Witness ==
  /\ call.fn = "calculateStatistics"
  /\ Len(call.values) = 3
  /\ call.result.min = call.result.max
  /\ call.result.mean < call.result.min

\* ---- bearing (C18)

\* C18: for all pairs of distinct points calculateBearing returns a bearing b with
\* 0 <= b < 360.
C18_BearingInRange ==
  (call.fn = "calculateBearing" /\ call.p1 # call.p2) =>
    (0 <= call.result /\ call.result < 360 * SCALE)

\* calculateBearing was called with a point and another to its south-west.
C18_Witness ==
  /\ call.fn = "calculateBearing"
  /\ call.p2.lat < call.p1.lat
  /\ call.p2.lng < call.p1.lng
  /\ call.result > 180 * SCALE
  /\ call.result < 270 * SCALE

\* ---- forward overlap (C19)

\* The distances between the consecutive photos of a time-sorted array, and the pairs
\* (by the position of their first photo) that are nearer than twice the ground height.
PairDistance(sorted, i) == calculateDistance(sorted[i], sorted[i + 1])
QualifyingPairs(sorted, groundHeight) ==
  {i \in 1..(Len(sorted) - 1) : PairDistance(sorted, i) < 2 * groundHeight}

\* max(0, (1 - d / groundHeight) * 100), in hundredths of a percent.
PairOverlap(d, groundHeight) ==
  IF d >= groundHeight THEN 0 ELSE (SCALE - (d * SCALE) \div groundHeight) * 100

\* The sum of the overlaps of a set of pairs.
RECURSIVE TotalOverlap(_, _, _)
TotalOverlap(sorted, groundHeight, pairs) ==
  IF pairs = {} THEN 0
  ELSE PairOverlap(PairDistance(sorted, CHOOSE i \in pairs : TRUE), groundHeight)
       + TotalOverlap(sorted, groundHeight, pairs \ {CHOOSE i \in pairs : TRUE})

MeanForwardOverlap(sorted, groundHeight) ==
  IF QualifyingPairs(sorted, groundHeight) = {} THEN 0
  ELSE TotalOverlap(sorted, groundHeight, QualifyingPairs(sorted, groundHeight))
       \div Cardinality(QualifyingPairs(sorted, groundHeight))

\* C19: the forward overlap returned by calculateOverlaps is the mean, over the
\* consecutive pairs of the time-sorted photos whose distance d is below twice the
\* ground height, of max(0, (1 - d / groundHeight) * 100): pairs with
\* d >= 2 * groundHeight are left out of the sum and of the count, pairs with
\* groundHeight <= d < 2 * groundHeight count as 0, and the result is 0 when no pair
\* qualifies.
C19_ForwardOverlapMean ==
  call.fn = "calculateOverlaps" =>
    call.result.forward =
      Fin(MeanForwardOverlap(SortByTimestamp(call.photos), call.result.groundHeight.v))

\* calculateOverlaps was called with four photos: one pair overlaps, one is between one
\* and two ground heights apart, one is further apart.
C19_Witness ==
  /\ call.fn = "calculateOverlaps"
  /\ Len(call.photos) = 4
  /\ call.photos # SortByTimestamp(call.photos)
  /\ \E i \in 1..3 : PairDistance(SortByTimestamp(call.photos), i) < call.result.groundHeight.v
  /\ \E i \in 1..3 :
       /\ PairDistance(SortByTimestamp(call.photos), i) > call.result.groundHeight.v
       /\ PairDistance(SortByTimestamp(call.photos), i) < 2 * call.result.groundHeight.v
  /\ \E i \in 1..3 :
       PairDistance(SortByTimestamp(call.photos), i) >= 2 * call.result.groundHeight.v
  /\ call.result.forward.v > 0

\* ---- side overlap (C20)

\* The angle between two bearings, folded to 0..180 degrees.
AngleBetween(b1, b2) ==
  IF Abs(b1 - b2) > 180 * SCALE THEN 360 * SCALE - Abs(b1 - b2) ELSE Abs(b1 - b2)

\* Photo j is an accepted side neighbour of photo i of the time-sorted array.
IsSideNeighbour(sorted, i, j, groundWidth) ==
  /\ Abs(i - j) >= 20
  /\ calculateDistance(sorted[i], sorted[j]) <= 3 * groundWidth
  /\ AngleBetween(Heading(sorted, i), calculateBearing(sorted[i], sorted[j])) > 45 * SCALE
  /\ AngleBetween(Heading(sorted, i), calculateBearing(sorted[i], sorted[j])) < 135 * SCALE

SideNeighbours(sorted, i, groundWidth) ==
  {j \in 1..Len(sorted) : IsSideNeighbour(sorted, i, j, groundWidth)}

\* The photos that have an accepted side neighbour.
WithSideNeighbour(sorted, groundWidth) ==
  {i \in 1..Len(sorted) : SideNeighbours(sorted, i, groundWidth) # {}}

\* The distance of photo i to its nearest accepted side neighbour.
NearestSideNeighbour(sorted, i, groundWidth) ==
  CHOOSE d \in {calculateDistance(sorted[i], sorted[j]) :
                  j \in SideNeighbours(sorted, i, groundWidth)} :
    \A j \in SideNeighbours(sorted, i, groundWidth) :
      d <= calculateDistance(sorted[i], sorted[j])

\* clamp(0, 100, (1 - d / groundWidth) * 100) as Math.max(0, Math.min(100, x)) gives it:
\* NaN where the quotient is 0 / 0.
ClampedSideOverlap(d, groundWidth) ==
  IF groundWidth = 0 /\ d = 0 THEN NaN
  ELSE IF d >= groundWidth THEN Fin(0)
  ELSE Fin((SCALE - (d * SCALE) \div groundWidth) * 100)

\* The sum of the clamped overlaps of a set of photos.
RECURSIVE TotalSideOverlap(_, _, _)
TotalSideOverlap(sorted, groundWidth, some) ==
  IF some = {} THEN Fin(0)
  ELSE jsAdd(ClampedSideOverlap(NearestSideNeighbour(sorted, CHOOSE i \in some : TRUE,
                                                     groundWidth),
                                groundWidth),
             TotalSideOverlap(sorted, groundWidth, some \ {CHOOSE i \in some : TRUE}))

MeanSideOverlap(sorted, groundWidth) ==
  IF WithSideNeighbour(sorted, groundWidth) = {} THEN Fin(0)
  ELSE jsDiv(TotalSideOverlap(sorted, groundWidth, WithSideNeighbour(sorted, groundWidth)),
             Fin(Cardinality(WithSideNeighbour(sorted, groundWidth)) * SCALE))

PairTime(sorted, i) == sorted[i + 1].timestamp - sorted[i].timestamp
TimedPairs(sorted) ==
  {i \in 1..(Len(sorted) - 1) : PairTime(sorted, i) > 0 /\ PairTime(sorted, i) < 60000}

\* The distance and the time of a set of pairs.
RECURSIVE TotalDistance(_, _)
TotalDistance(sorted, pairs) ==
  IF pairs = {} THEN 0
  ELSE PairDistance(sorted, CHOOSE i \in pairs : TRUE)
       + TotalDistance(sorted, pairs \ {CHOOSE i \in pairs : TRUE})

RECURSIVE TotalTime(_, _)
TotalTime(sorted, pairs) ==
  IF pairs = {} THEN 0
  ELSE PairTime(sorted, CHOOSE i \in pairs : TRUE)
       + TotalTime(sorted, pairs \ {CHOOSE i \in pairs : TRUE})

\* C21: calculateAverageSpeed returns the distance of the consecutive time-sorted pairs
\* with 0 < dt < 60 s divided by their time (metres per second); pairs with equal
\* timestamps and pairs 60 s or more apart contribute neither; the result is 0 when no
\* pair qualifies, it is never negative, and the divisor is never 0.
C21_SpeedOverTimedPairs ==
  call.fn = "calculateAverageSpeed" =>
    /\ TimedPairs(SortByTimestamp(call.photos)) = {} => call.result = 0
    /\ TimedPairs(SortByTimestamp(call.photos)) # {} =>
         /\ TotalTime(SortByTimestamp(call.photos), TimedPairs(SortByTimestamp(call.photos))) > 0
         /\ call.result =
              (TotalDistance(SortByTimestamp(call.photos),
                             TimedPairs(SortByTimestamp(call.photos))) * 1000)
              \div TotalTime(SortByTimestamp(call.photos),
                             TimedPairs(SortByTimestamp(call.photos)))
    /\ call.result >= 0

\* calculateAverageSpeed was called with photos out of time order: two of them taken at
\* the same instant at different places, two a minute apart, and a pair that counts.
C21_Witness ==
  /\ call.fn = "calculateAverageSpeed"
  /\ call.photos # SortByTimestamp(call.photos)
  /\ \E i \in 1..(Len(call.photos) - 1) :
       /\ PairTime(SortByTimestamp(call.photos), i) = 0
       /\ PairDistance(SortByTimestamp(call.photos), i) > 0
  /\ \E i \in 1..(Len(call.photos) - 1) : PairTime(SortByTimestamp(call.photos), i) >= 60000
  /\ TimedPairs(SortByTimestamp(call.photos)) # {}
  /\ call.result > 0

\* ---- small collections (C27)

\* The pairs (i, j) of the time-sorted photos that are within three ground widths of
\* one another with j sideways of i's heading, whatever their places in the sequence.
SidewaysInRange(sorted, groundWidth) ==
  {pair \in (1..Len(sorted)) \X (1..Len(sorted)) :
     /\ pair[1] # pair[2]
     /\ calculateDistance(sorted[pair[1]], sorted[pair[2]]) <= 3 * groundWidth
     /\ AngleBetween(Heading(sorted, pair[1]),
                     calculateBearing(sorted[pair[1]], sorted[pair[2]])) > 45 * SCALE
     /\ AngleBetween(Heading(sorted, pair[1]),
                     calculateBearing(sorted[pair[1]], sorted[pair[2]])) < 135 * SCALE}

\* C27: for every collection of at most 20 photos the side overlap of calculateOverlaps
\* is 0, no pair of photos being 20 or more positions apart; the flight is reported
\* with a side overlap below the 30 % of the side-overlap warning.
C27_NoSideOverlapUpTo20 ==
  (metrics.ok /\ Len(photos) <= 20) =>
    /\ \A i, j \in 1..Len(photos) : Abs(i - j) < 20
    /\ metrics.avgSideOverlap = Fin(0)
    /\ jsLt(metrics.avgSideOverlap, Fin(30 * SCALE))

\* Metrics are held for twenty photos flown in two strips side by side, the first and
\* the last photo among the pairs that lie sideways of one another within range.
C27_Witness ==
  /\ metrics.ok
  /\ Len(photos) = 20
  /\ IsFin(metrics.singlePhotoW)
  /\ <<1, 20>> \in SidewaysInRange(SortByTimestamp(photos), metrics.singlePhotoW.v)
  /\ metrics.avgSideOverlap = Fin(0)

\* ---- RTK status and capture order (C22)

\* C22: after an upload with an RTK log, the status the log gives for the sequence
\* index k is carried by the k-th photo of the collection in capture (timestamp) order,
\* for every k that the log and the collection cover, whatever the file names are.
C22_StatusByCaptureOrder ==
  parsed.called =>
    \A k \in (DOMAIN parsed.map) \cap (1..Len(photos)) :
      SortByTimestamp(photos)[k].rtkStatus = parsed.map[k]

\* ---- order of the photo array (C28)

\* No two photos of the array were taken at the same instant.
DistinctTimestamps(ps) ==
  \A i, j \in 1..Len(ps) : i # j => ps[i].timestamp # ps[j].timestamp

\* The arrays that hold the photos of ps in some order.
Rearrangements(ps) ==
  {q \in [1..Len(ps) -> {ps[k] : k \in 1..Len(ps)}] :
     \A k \in 1..Len(ps) : \E m \in 1..Len(ps) : q[m] = ps[k]}

\* C28: for photos with pairwise distinct timestamps, the FlightMetrics computed from
\* the array are those computed from the same photos in any other order, areaCovered
\* and rtkFixedRatio included.
C28_OrderIndependent ==
  (call.fn = "metrics" /\ DistinctTimestamps(call.photos)) =>
    \A q \in Rearrangements(call.photos) :
      MetricsAt(q, call.drone, call.flightHeight, call.excludeTurns, timeZone) = call.result

\* ---- one pass, one analysis at a time (C23)

\* The step takes the running pass from the photo it awaits to a later one: the
\* awaited analysis has resolved, its result is in the pass's array, and the photos
\* passed over have no file.
NextAnalysisAfterResult ==
  /\ qc'.i > qc.i
  /\ Settles(updatedPhotos[qc.i].file)
  /\ updatedPhotos'[qc.i].imageQuality.analyzed
  /\ \A k \in (qc.i + 1)..(qc'.i - 1) : ~HasFile(updatedPhotos[k])
  /\ \A k \in 1..Len(updatedPhotos) : k # qc.i => updatedPhotos'[k] = updatedPhotos[k]

\* C23: at most one quality pass is active: a pass starts only when none is running,
\* and while one is running no step starts another (the pass keeps its array and its
\* position); within the pass one analysis is in flight: the pass moves to the next
\* photo only when the analysis it awaits has resolved.
C23_OnePassOneAnalysis ==
  [][/\ (qc.pc = "idle" /\ qc'.pc = "awaiting") => (~isCheckingQuality /\ isCheckingQuality')
     /\ (qc.pc = "awaiting" /\ qc'.pc = "awaiting") =>
          \/ qc'.i = qc.i /\ updatedPhotos' = updatedPhotos
          \/ NextAnalysisAfterResult
     /\ isCheckingQuality' <=> (qc'.pc = "awaiting")]_vars

\* A pass awaits the analysis of a photo after the result of the photo before it was
\* attached, while its own photo has no result yet.
C23_Witness ==
  /\ qc.pc = "awaiting"
  /\ isCheckingQuality
  /\ qc.i >= 2
  /\ updatedPhotos[qc.i - 1].imageQuality.analyzed
  /\ ~updatedPhotos[qc.i].imageQuality.present

\* ---- upload against quality pass (C24)

\* The photos of a collection, whatever quality results they carry.
WithoutQuality(ps) ==
  SubSeq([k \in 1..Len(ps) |-> [ps[k] EXCEPT !.imageQuality = NoImageQuality]], 1, Len(ps))

\* The step completes an upload.
UploadCompletes == uploader.pc = "processing" /\ uploader'.pc = "idle"

\* C24: when an upload completes, the collection is exactly the photos uploaded, and
\* it holds these photos until the next upload completes: no step of a quality pass
\* puts other photos in their place.
C24_CollectionOfLastUpload ==
  [][/\ UploadCompletes => photos' = ProcessedPhotos(uploader.files)
     /\ WithoutQuality(photos') # WithoutQuality(photos) => UploadCompletes]_vars

\* ---- copy-on-write (C26)

\* The step is an iteration of the quality pass that publishes: it hands a new array
\* to setPhotos.
PassPublishes ==
  /\ qc.pc = "awaiting"
  /\ (qc'.pc = "idle" \/ qc'.i # qc.i)
  /\ Publishes(qc.i, Len(updatedPhotos))

\* C26: the photo records of the collection held (the snapshot the metrics were
\* computed from) change only when a new collection is published, by an upload or by
\* a publishing iteration of the quality pass: attaching a quality result never
\* alters the records of the snapshot already published.
C26_CopyOnWrite ==
  [][photos' # photos => (UploadCompletes \/ PassPublishes)]_vars

\* ---- starting a pass again (C30)

\* C30: whenever metrics are held for the collection and no quality pass is running, a
\* quality pass can be started on it (the quality button is there to be clicked), also
\* after an earlier pass has completed and a new upload has replaced the collection.
C30_PassCanBeStarted ==
  (metrics.ok /\ ~isCheckingQuality) => ENABLED RunQualityCheck

\* ---- the end of a quality pass (C25)

\* The step on which a quality pass completes.
PassCompletes == isCheckingQuality /\ ~isCheckingQuality'

C29_ReportTextFromItsMetrics ==
  CanExport =>
    /\ ExportedReport.aiReport.metrics = ExportedReport.metrics
    /\ ExportedReport.aiReport.drone = ExportedReport.drone
    /\ ExportedReport.aiReport.photoCount = ExportedReport.photoCount

====
